---- MODULE Spec2Model ----
(***************************************************************************)
(* A model of the aoc2023 solutions.  Each day is an independent program;  *)
(* the day16 part (beam traversal of a mirror/splitter grid) comes first.  *)
(*                                                                         *)
(* Conventions: a Vec is a sequence (1-based here, 0-based in the source,  *)
(* so grid[y][x] of the source is grid[y + 1][x + 1] here); an Option is a *)
(* sequence of length 0 (None) or 1 (Some); an enum variant is the string  *)
(* of its name; a panic is the program position "panic".                   *)
(***************************************************************************)
EXTENDS Naturals, Integers, Sequences, FiniteSets, TLC

\* ------------------------------------------------------------ bounds
\* Generated grids: every grid of at most MaxArea cells, and every grid of at
\* most MaxWide cells that holds at most MaxSpecial mirrors and splitters.
MaxArea == 4

MaxWide == 6

MaxSpecial == 2

\* Generated texts: at most MaxLines lines of at most MaxLineLen characters.
MaxLines == 2

MaxLineLen == 2
\* day19: the largest rating (4000 in the source), and the pool's threads.
MaxRating == 1
PoolSize == 2
\* day17: the cells of a grid searched with part 1's rule, and the side of a
\* grid searched with part 2's rule.
MaxArea17 == 6
MaxSide17 == 5
\* day14: the cells of a map, the rotate calls of part2's loop (1_000_000_000
\* in the source), and the tilts called in a row.
MaxArea14 == 6
MaxRotations == 12
MaxTilts == 2
\* day15: the operations applied to a HashMap, and the largest lens value.
MaxOps == 4
MaxValue == 2
\* day20: the button pushes of part1 (1000 in the source), and the pulses
\* handled in all (a network may feed itself for ever).
MaxPushes == 3
MaxHandled == 40

\* day10: the most tiles a generated grid has.
MaxArea10 == 16

\* day18: the most corners the box a generated trench is drawn in has, and
\* the most steps one unit of it stands for.
MaxArea18 == 16
MaxScale18 == 2

\* day12: the most springs of a generated row, its most groups, and the
\* largest group.
MaxSprings == 5
MaxGroups == 2
MaxGroup == 3

\* day8: the largest small argument of gcd, the largest small element and
\* the greatest length of a slice given to lcm_all, and the most
\* instructions of a generated input.
MaxArg == 24
MaxStep == 6
MaxList == 3
MaxInstructions == 2

\* day19, ranges: the largest value of a generated condition.
MaxCut == 2

\* usize is 8 bytes wide.
UsizeBytes == 8

\* ------------------------------------------------------------ day16: state

VARIABLES
  input,        \* the text given to part1 and part2, line by line
  grid,         \* the parsed grid (fire_laser's argument)
  start_laser,  \* the argument of the running fire_laser call
  lasers,       \* fire_laser: the worklist (VecDeque)
  seen,         \* fire_laser: the HashSet of expanded cursors
  result,       \* fire_laser: the energized cells (Vec<Vec<bool>>)
  pc,           \* the program position
  caller,       \* the function that runs or called fire_laser: "test", "main", "part1", "part2"
  todo,         \* the start cursors still to fire (the rest of the iterator)
  fired,        \* history: the start cursors fire_laser was called with, in order
  rets,         \* history: the values fire_laser returned, in order
  max,          \* part2: the running maximum
  answer1,      \* main: part1's value (-1 before)
  answer2       \* main: part2's value (-1 before)

\* ------------------------------------------------------------ day19: state

VARIABLES
  ranges,           \* part2: the accepted ranges (the value of part_ranges)
  part2_pc,         \* part2: the position of the calling thread
  next_x,           \* part2: the x of the next closure the for loop submits
  pool_jobs,        \* the closures queued in the thread pool, by their x
  pool_threads,     \* the pool's threads: idle, or the closure each runs
  tx_handles,       \* who holds a Sender of the accepted counts: part2 itself, or a closure by its x
  done_tx_handles,  \* who holds a Sender of the progress channel
  rx_queue,         \* the accepted counts sent and not yet received
  done_rx_queue,    \* the progress messages sent and not yet received
  count_rx_queue,   \* the totals sent on count_tx and not yet received
  count,            \* the summing thread: its running total
  summer_pc,        \* the summing thread: its position
  done,             \* the progress thread: its counter
  progress_pc,      \* the progress thread: its position
  ret19             \* part2's return value (-1 before)

\* ------------------------------------------------------------ day17: state

VARIABLES
  grid17,    \* find_path: the grid of heat losses
  is_part_2, \* find_path: the rule set
  queue,     \* find_path: the priority queue, a set of moves (least distance first)
  seen17,    \* find_path: the HashSet of moves
  prevs,     \* find_path: the previous cell of each cell
  pc17,      \* find_path: the position
  ret17      \* find_path: the value returned (-1 before)

\* ------------------------------------------------------------ day14: state

VARIABLES
  map,    \* the Map: rows, compressed, compressed_cache, cache
  map0,   \* history: the rows the Map was made from
  rows_before, \* history: the rows before the last call
  calls,  \* history: the methods called on the Map, in order
  pc14,   \* the position of the caller
  ret14   \* the load returned (-1 before)

\* ------------------------------------------------------------ day15: state

VARIABLES
  boxes,        \* HashMap: the boxes, by number from 0
  boxes_before, \* history: the boxes before the last operation
  ops           \* history: the operations applied, in order

\* ------------------------------------------------------------ day20: state

VARIABLES
  parts,      \* State: the parts by id
  pulses,     \* State: the queue of pulses
  low,        \* process_pulses: the low pulses counted
  high,       \* process_pulses: the high pulses counted
  part1_low,  \* part1: the sum of the lows
  part1_high, \* part1: the sum of the highs
  pushes,     \* part1: the iterations of its loop that are over
  pc20,       \* part1: the position
  ret20,      \* part1: the value returned (-1 before)
  sent,       \* history: every pulse put in the queue, in order
  handled     \* history: every pulse taken from the queue, in order

\* ------------------------------------------------------------ day10: state

VARIABLES
  map10,      \* the tiles read from the input, line by line
  pipe_map,   \* the tiles of the explored pipes, the rest being "."
  queue10,    \* the explore queue: (position, distance, incoming direction)
  explored,   \* the positions already explored
  row10,      \* the line the scan of part2 is at
  tile_count, \* the tiles counted so far
  pc10,       \* where part2 is: "explore", "scan", "returned", "panic"
  ret10       \* Option: what part2 returned

\* ------------------------------------------------------------ day18: state

VARIABLES
  instructions, \* the instructions parsed from the input
  lines18,      \* the lines of the trench (convert_to_lines)
  bounds18,     \* the bounding box of the lines (get_bounds)
  y18,          \* the row the loop of part1 is at
  total18,      \* the cells counted so far
  pc18,         \* where part1 is: "rows", "returned", "panic"
  ret18         \* Option: what part1 returned

\* ------------------------------------------------------------ day12: state

VARIABLES
  line12, \* the Line count_line_variants is called on
  memo12, \* the HashMap of the call, as it is when the call returns
  hits12, \* history: how often the HashMap answered
  pc12,   \* where the call is: "call", "returned", "panic"
  ret12   \* Option: what count_line_variants returned

\* ------------------------------------------------------------ day8: state

VARIABLES
  call8,         \* which function is called: "gcd", "lcm_all" or "part2"
  build8,        \* the build profile: "debug" (overflow checks) or "release"
  a8,            \* gcd: the first argument
  b8,            \* gcd: the second argument
  list8,         \* lcm_all: the slice; part2: the lengths it collected
  instructions8, \* part2: Input.instructions
  map8,          \* part2: Input.map
  at8,           \* lcm_all: the index in list8 of input[0] of the frame at work
  acc8,          \* lcm_all: b, what the frame below returned
  product8,      \* lcm_all: a * b of the frame at work
  x8,            \* gcd: the first argument of the innermost call
  y8,            \* gcd: the second argument of the innermost call
  shifts8,       \* gcd: the calls waiting for the innermost, TRUE where << 1 follows
  got8,          \* gcd: Option, the value on its way up through the waiting calls
  calls8,        \* history: the calls of gcd since the outermost
  pc8,           \* where the call is: "call", "lengths", "lcm", "gcd", "unwind", "returned", "panic", "never"
  ret8           \* Option: what the call returned

\* ------------------------------------------------------------ day19r: state

VARIABLES
  call19,      \* what is compared: "condition" or "workflows"
  condition19, \* the Condition of the comparison
  workflows19, \* the workflows of the comparison, Vec<Workflow<usize>>
  start19,     \* Input.starting_workflow
  part19,      \* the Part of the comparison
  found19,     \* what part_ranges returned
  contained19, \* Option: whether the range, or some range of found19, contains the part
  matched19,   \* Option: whether the condition matches, or accept_part accepts, the part
  pc19r        \* "call", or "panic" once make_graph or part_ranges panicked

\* ------------------------------------------------------------ the programs' variables

vars16 == <<input, grid, start_laser, lasers, seen, result, pc, caller, todo,
            fired, rets, max, answer1, answer2>>

vars19 == <<ranges, part2_pc, next_x, pool_jobs, pool_threads, tx_handles,
            done_tx_handles, rx_queue, done_rx_queue, count_rx_queue, count,
            summer_pc, done, progress_pc, ret19>>

vars17 == <<grid17, is_part_2, queue, seen17, prevs, pc17, ret17>>

vars14 == <<map, map0, rows_before, calls, pc14, ret14>>

vars15 == <<boxes, boxes_before, ops>>

vars20 == <<parts, pulses, low, high, part1_low, part1_high, pushes, pc20,
            ret20, sent, handled>>

vars10 == <<map10, pipe_map, queue10, explored, row10, tile_count, pc10, ret10>>

vars18 == <<instructions, lines18, bounds18, y18, total18, pc18, ret18>>

vars12 == <<line12, memo12, hits12, pc12, ret12>>

vars8 == <<call8, build8, a8, b8, list8, instructions8, map8, at8, acc8,
           product8, x8, y8, shifts8, got8, calls8, pc8, ret8>>

vars19r == <<call19, condition19, workflows19, start19, part19, found19,
             contained19, matched19, pc19r>>

vars == <<vars16, vars19, vars17, vars14, vars15, vars20, vars10, vars18, vars12, vars8, vars19r>>

\* A program that is not run: its variables at rest.
Idle16 ==
  /\ input = << >>
  /\ grid = << >>
  /\ start_laser = << >>
  /\ lasers = << >>
  /\ seen = {}
  /\ result = << >>
  /\ pc = "idle"
  /\ caller = "idle"
  /\ todo = << >>
  /\ fired = << >>
  /\ rets = << >>
  /\ max = 0
  /\ answer1 = -1
  /\ answer2 = -1

Idle19 ==
  /\ ranges = << >>
  /\ part2_pc = "idle"
  /\ next_x = 0
  /\ pool_jobs = << >>
  /\ pool_threads = << >>
  /\ tx_handles = {}
  /\ done_tx_handles = {}
  /\ rx_queue = << >>
  /\ done_rx_queue = << >>
  /\ count_rx_queue = << >>
  /\ count = 0
  /\ summer_pc = "idle"
  /\ done = 0
  /\ progress_pc = "idle"
  /\ ret19 = -1

Idle17 ==
  /\ grid17 = << >>
  /\ is_part_2 = FALSE
  /\ queue = {}
  /\ seen17 = {}
  /\ prevs = << >>
  /\ pc17 = "idle"
  /\ ret17 = -1

Idle14 ==
  /\ map = << >>
  /\ map0 = << >>
  /\ rows_before = << >>
  /\ calls = << >>
  /\ pc14 = "idle"
  /\ ret14 = -1

Idle15 ==
  /\ boxes = << >>
  /\ boxes_before = << >>
  /\ ops = << >>

Idle20 ==
  /\ parts = << >>
  /\ pulses = << >>
  /\ low = 0
  /\ high = 0
  /\ part1_low = 0
  /\ part1_high = 0
  /\ pushes = 0
  /\ pc20 = "idle"
  /\ ret20 = -1
  /\ sent = << >>
  /\ handled = << >>

Idle10 ==
  /\ map10 = << >>
  /\ pipe_map = << >>
  /\ queue10 = << >>
  /\ explored = {}
  /\ row10 = 0
  /\ tile_count = 0
  /\ pc10 = "idle"
  /\ ret10 = << >>

Idle18 ==
  /\ instructions = << >>
  /\ lines18 = << >>
  /\ bounds18 = << >>
  /\ y18 = 0
  /\ total18 = 0
  /\ pc18 = "idle"
  /\ ret18 = << >>

Idle12 ==
  /\ line12 = << >>
  /\ memo12 = << >>
  /\ hits12 = 0
  /\ pc12 = "idle"
  /\ ret12 = << >>

Idle8 ==
  /\ call8 = "idle"
  /\ build8 = "idle"
  /\ a8 = << >>
  /\ b8 = << >>
  /\ list8 = << >>
  /\ instructions8 = << >>
  /\ map8 = << >>
  /\ at8 = 0
  /\ acc8 = << >>
  /\ product8 = << >>
  /\ x8 = << >>
  /\ y8 = << >>
  /\ shifts8 = << >>
  /\ got8 = << >>
  /\ calls8 = 0
  /\ pc8 = "idle"
  /\ ret8 = << >>

Idle19r ==
  /\ call19 = "idle"
  /\ condition19 = << >>
  /\ workflows19 = << >>
  /\ start19 = 0
  /\ part19 = << >>
  /\ found19 = << >>
  /\ contained19 = << >>
  /\ matched19 = << >>
  /\ pc19r = "idle"

\* What each program leaves alone, and where it leaves it.
Rest16 == <<vars19, vars17, vars14, vars15, vars20, vars10, vars18, vars12, vars8, vars19r>>
RestIdle16 == Idle19 /\ Idle17 /\ Idle14 /\ Idle15 /\ Idle20 /\ Idle10 /\ Idle18 /\ Idle12 /\ Idle8 /\ Idle19r

Rest19 == <<vars16, vars17, vars14, vars15, vars20, vars10, vars18, vars12, vars8, vars19r>>
RestIdle19 == Idle16 /\ Idle17 /\ Idle14 /\ Idle15 /\ Idle20 /\ Idle10 /\ Idle18 /\ Idle12 /\ Idle8 /\ Idle19r

Rest17 == <<vars16, vars19, vars14, vars15, vars20, vars10, vars18, vars12, vars8, vars19r>>
RestIdle17 == Idle16 /\ Idle19 /\ Idle14 /\ Idle15 /\ Idle20 /\ Idle10 /\ Idle18 /\ Idle12 /\ Idle8 /\ Idle19r

Rest14 == <<vars16, vars19, vars17, vars15, vars20, vars10, vars18, vars12, vars8, vars19r>>
RestIdle14 == Idle16 /\ Idle19 /\ Idle17 /\ Idle15 /\ Idle20 /\ Idle10 /\ Idle18 /\ Idle12 /\ Idle8 /\ Idle19r

Rest15 == <<vars16, vars19, vars17, vars14, vars20, vars10, vars18, vars12, vars8, vars19r>>
RestIdle15 == Idle16 /\ Idle19 /\ Idle17 /\ Idle14 /\ Idle20 /\ Idle10 /\ Idle18 /\ Idle12 /\ Idle8 /\ Idle19r

Rest20 == <<vars16, vars19, vars17, vars14, vars15, vars10, vars18, vars12, vars8, vars19r>>
RestIdle20 == Idle16 /\ Idle19 /\ Idle17 /\ Idle14 /\ Idle15 /\ Idle10 /\ Idle18 /\ Idle12 /\ Idle8 /\ Idle19r

Rest10 == <<vars16, vars19, vars17, vars14, vars15, vars20, vars18, vars12, vars8, vars19r>>
RestIdle10 == Idle16 /\ Idle19 /\ Idle17 /\ Idle14 /\ Idle15 /\ Idle20 /\ Idle18 /\ Idle12 /\ Idle8 /\ Idle19r

Rest18 == <<vars16, vars19, vars17, vars14, vars15, vars20, vars10, vars12, vars8, vars19r>>
RestIdle18 == Idle16 /\ Idle19 /\ Idle17 /\ Idle14 /\ Idle15 /\ Idle20 /\ Idle10 /\ Idle12 /\ Idle8 /\ Idle19r

Rest12 == <<vars16, vars19, vars17, vars14, vars15, vars20, vars10, vars18, vars8, vars19r>>
RestIdle12 == Idle16 /\ Idle19 /\ Idle17 /\ Idle14 /\ Idle15 /\ Idle20 /\ Idle10 /\ Idle18 /\ Idle8 /\ Idle19r

Rest8 == <<vars16, vars19, vars17, vars14, vars15, vars20, vars10, vars18, vars12, vars19r>>
RestIdle8 == Idle16 /\ Idle19 /\ Idle17 /\ Idle14 /\ Idle15 /\ Idle20 /\ Idle10 /\ Idle18 /\ Idle12 /\ Idle19r

Rest19r == <<vars16, vars19, vars17, vars14, vars15, vars20, vars10, vars18, vars12, vars8>>
RestIdle19r == Idle16 /\ Idle19 /\ Idle17 /\ Idle14 /\ Idle15 /\ Idle20 /\ Idle10 /\ Idle18 /\ Idle12 /\ Idle8

\* ------------------------------------------------------------ day16: types

Tile == {"Empty", "FMirror", "BMirror", "HSplitter", "VSplitter"}

Direction == {"Up", "Down", "Left", "Right"}

Laser(x, y, direction) == [x |-> x, y |-> y, direction |-> direction]

\* char::from(Tile)
CharFrom(tile) ==
  CASE tile = "Empty" -> "."
    [] tile = "FMirror" -> "/"
    [] tile = "BMirror" -> "\\"
    [] tile = "HSplitter" -> "-"
    [] tile = "VSplitter" -> "|"

\* Tile::from with the last arm giving Tile::Empty instead of the panic.
TileFromLenient(c) ==
  CASE c = "." -> "Empty"
    [] c = "/" -> "FMirror"
    [] c = "\\" -> "BMirror"
    [] c = "-" -> "HSplitter"
    [] c = "|" -> "VSplitter"
    [] OTHER -> "Empty"

\* Tile::from(char); "panic" stands for panic!("Unknown tile").
TileFrom(c) ==
  CASE c = "." -> "Empty"
    [] c = "/" -> "FMirror"
    [] c = "\\" -> "BMirror"
    [] c = "-" -> "HSplitter"
    [] c = "|" -> "VSplitter"
    [] OTHER -> "panic"

\* ------------------------------------------------------------ day16: pure functions

\* parse_input on the lines of the text (each a sequence of characters).
parse_input(s) == [y \in DOMAIN s |-> [x \in DOMAIN s[y] |-> TileFrom(s[y][x])]]

\* Whether parse_input panics: some character is no tile.
ParsePanics(s) == \E y \in DOMAIN s : \E x \in DOMAIN s[y] : TileFrom(s[y][x]) = "panic"

\* next_tile with the position clamped at the boundary instead of the step
\* being dropped.
next_tile_clamped(width, height, laser) ==
  CASE laser.direction = "Up" ->
         IF laser.y > 0 THEN << [laser EXCEPT !.y = laser.y - 1] >> ELSE << laser >>
    [] laser.direction = "Down" ->
         IF laser.y + 1 < height THEN << [laser EXCEPT !.y = laser.y + 1] >> ELSE << laser >>
    [] laser.direction = "Left" ->
         IF laser.x > 0 THEN << [laser EXCEPT !.x = laser.x - 1] >> ELSE << laser >>
    [] laser.direction = "Right" ->
         IF laser.x + 1 < width THEN << [laser EXCEPT !.x = laser.x + 1] >> ELSE << laser >>

\* next_tile with the checks of Down and Right off by one: the last row and
\* the last column are never entered.
next_tile_short(width, height, laser) ==
  CASE laser.direction = "Up" ->
         IF laser.y > 0 THEN << [laser EXCEPT !.y = laser.y - 1] >> ELSE << >>
    [] laser.direction = "Down" ->
         IF laser.y + 2 < height THEN << [laser EXCEPT !.y = laser.y + 1] >> ELSE << >>
    [] laser.direction = "Left" ->
         IF laser.x > 0 THEN << [laser EXCEPT !.x = laser.x - 1] >> ELSE << >>
    [] laser.direction = "Right" ->
         IF laser.x + 2 < width THEN << [laser EXCEPT !.x = laser.x + 1] >> ELSE << >>

\* next_tile: one bounds-checked step; None (<<>>) when the step leaves the grid.
next_tile(width, height, laser) ==
  CASE laser.direction = "Up" ->
         IF laser.y > 0 THEN << [laser EXCEPT !.y = laser.y - 1] >> ELSE << >>
    [] laser.direction = "Down" ->
         IF laser.y + 1 < height THEN << [laser EXCEPT !.y = laser.y + 1] >> ELSE << >>
    [] laser.direction = "Left" ->
         IF laser.x > 0 THEN << [laser EXCEPT !.x = laser.x - 1] >> ELSE << >>
    [] laser.direction = "Right" ->
         IF laser.x + 1 < width THEN << [laser EXCEPT !.x = laser.x + 1] >> ELSE << >>

\* new_directions with the horizontal splitter sending a beam from above or
\* below only Left.
new_directions_left(tile, direction) ==
  CASE tile = "FMirror" /\ direction = "Up" -> << "Right" >>
    [] tile = "FMirror" /\ direction = "Down" -> << "Left" >>
    [] tile = "FMirror" /\ direction = "Left" -> << "Down" >>
    [] tile = "FMirror" /\ direction = "Right" -> << "Up" >>
    [] tile = "BMirror" /\ direction = "Up" -> << "Left" >>
    [] tile = "BMirror" /\ direction = "Down" -> << "Right" >>
    [] tile = "BMirror" /\ direction = "Left" -> << "Up" >>
    [] tile = "BMirror" /\ direction = "Right" -> << "Down" >>
    [] tile = "HSplitter" /\ direction \in {"Up", "Down"} -> << "Left" >>
    [] tile = "VSplitter" /\ direction \in {"Left", "Right"} -> << "Up", "Down" >>
    [] OTHER -> << direction >>

\* new_directions: the outgoing directions, in the order of the returned Vec.
new_directions(tile, direction) ==
  CASE tile = "FMirror" /\ direction = "Up" -> << "Right" >>
    [] tile = "FMirror" /\ direction = "Down" -> << "Left" >>
    [] tile = "FMirror" /\ direction = "Left" -> << "Down" >>
    [] tile = "FMirror" /\ direction = "Right" -> << "Up" >>
    [] tile = "BMirror" /\ direction = "Up" -> << "Left" >>
    [] tile = "BMirror" /\ direction = "Down" -> << "Right" >>
    [] tile = "BMirror" /\ direction = "Left" -> << "Up" >>
    [] tile = "BMirror" /\ direction = "Right" -> << "Down" >>
    [] tile = "HSplitter" /\ direction \in {"Up", "Down"} -> << "Left", "Right" >>
    [] tile = "VSplitter" /\ direction \in {"Left", "Right"} -> << "Up", "Down" >>
    [] OTHER -> << direction >>

\* The Vec<Vec<bool>> of fire_laser, all false, of the grid's shape (line by line).
FreshResult(g) == [y \in DOMAIN g |-> [x \in DOMAIN g[y] |-> FALSE]]

\* result.into_iter().flatten().filter(|e| *e).count()
CountTrue(res) ==
  Cardinality({p \in UNION {{<<y, x>> : x \in DOMAIN res[y]} : y \in DOMAIN res} :
                 res[p[1]][p[2]]})

\* Whether result[laser.y][laser.x] and grid[laser.y][laser.x] are in range.
InRange(g, laser) ==
  /\ laser.y + 1 \in DOMAIN g
  /\ laser.x + 1 \in DOMAIN g[laser.y + 1]

\* Pushes with the for loop left after its first direction.
PushesFirstOnly(width, height, laser, dirs) ==
  IF dirs = << >> THEN << >>
  ELSE next_tile(width, height, [laser EXCEPT !.direction = Head(dirs)])

\* The lasers the for loop of fire_laser pushes for `laser`, in push order.
RECURSIVE Pushes(_, _, _, _)
Pushes(width, height, laser, dirs) ==
  IF dirs = << >> THEN << >>
  ELSE next_tile(width, height, [laser EXCEPT !.direction = Head(dirs)])
         \o Pushes(width, height, laser, Tail(dirs))

\* The worklist without its i-th element.
RemoveAt(s, i) == SubSeq(s, 1, i - 1) \o SubSeq(s, i + 1, Len(s))

\* LoopBody with the loop left (the worklist dropped) at the first step that
\* leaves the grid, instead of that step alone being dropped.
LoopBodyStopAtEdge(g, width, height, st, i) ==
  LET laser == st.lasers[i]
      rest == RemoveAt(st.lasers, i)
  IN IF ~InRange(g, laser)
       THEN [st EXCEPT !.lasers = rest, !.panic = TRUE]
       ELSE LET marked == [st.result EXCEPT ![laser.y + 1][laser.x + 1] = TRUE]
                dirs == new_directions(g[laser.y + 1][laser.x + 1], laser.direction)
                pushed == Pushes(width, height, laser, dirs)
            IN IF laser \in st.seen
                 THEN [st EXCEPT !.lasers = rest, !.result = marked]
                 ELSE [st EXCEPT
                         !.lasers = IF Len(pushed) < Len(dirs) THEN << >>
                                    ELSE rest \o pushed,
                         !.seen = st.seen \cup {laser},
                         !.result = marked]

\* LoopBody with seen.insert(laser) left out.
LoopBodyNoInsert(g, width, height, st, i) ==
  LET laser == st.lasers[i]
      rest == RemoveAt(st.lasers, i)
  IN IF ~InRange(g, laser)
       THEN [st EXCEPT !.lasers = rest, !.panic = TRUE]
       ELSE LET marked == [st.result EXCEPT ![laser.y + 1][laser.x + 1] = TRUE]
            IN IF laser \in st.seen
                 THEN [st EXCEPT !.lasers = rest, !.result = marked]
                 ELSE [st EXCEPT
                         !.lasers = rest \o Pushes(width, height, laser,
                                       new_directions(g[laser.y + 1][laser.x + 1],
                                                      laser.direction)),
                         !.result = marked]

\* LoopBody with the seen set asked for the cell alone: a cursor whose cell
\* was expanded in any direction is not expanded.
LoopBodySeenByCell(g, width, height, st, i) ==
  LET laser == st.lasers[i]
      rest == RemoveAt(st.lasers, i)
  IN IF ~InRange(g, laser)
       THEN [st EXCEPT !.lasers = rest, !.panic = TRUE]
       ELSE LET marked == [st.result EXCEPT ![laser.y + 1][laser.x + 1] = TRUE]
            IN IF \E c \in st.seen : c.x = laser.x /\ c.y = laser.y
                 THEN [st EXCEPT !.lasers = rest, !.result = marked]
                 ELSE [st EXCEPT
                         !.lasers = rest \o Pushes(width, height, laser,
                                       new_directions(g[laser.y + 1][laser.x + 1],
                                                      laser.direction)),
                         !.seen = st.seen \cup {laser},
                         !.result = marked]

\* One iteration of the while loop of fire_laser on the frame
\* st = [lasers, seen, result, panic], taking the i-th laser of the worklist
\* (pop_front is i = 1).
LoopBody(g, width, height, st, i) ==
  LET laser == st.lasers[i]
      rest == RemoveAt(st.lasers, i)
  IN IF ~InRange(g, laser)
       THEN [st EXCEPT !.lasers = rest, !.panic = TRUE]
       ELSE LET marked == [st.result EXCEPT ![laser.y + 1][laser.x + 1] = TRUE]
            IN IF laser \in st.seen
                 THEN [st EXCEPT !.lasers = rest, !.result = marked]
                 ELSE [st EXCEPT
                         !.lasers = rest \o Pushes(width, height, laser,
                                       new_directions(g[laser.y + 1][laser.x + 1],
                                                      laser.direction)),
                         !.seen = st.seen \cup {laser},
                         !.result = marked]

\* FireEntry with the seen set kept from the call before (a set that
\* outlives the call).
FireEntryStaleSeen(g, start) ==
  [lasers |-> << start >>, seen |-> seen, result |-> FreshResult(g), panic |-> FALSE]

\* The frame of fire_laser when its loop is entered.
FireEntry(g, start) ==
  [lasers |-> << start >>, seen |-> {}, result |-> FreshResult(g), panic |-> FALSE]

\* The while loop of fire_laser run to its end (pop_front every time).
RECURSIVE FireLoop(_, _, _, _)
FireLoop(g, width, height, st) ==
  IF st.panic \/ st.lasers = << >> THEN st
  ELSE FireLoop(g, width, height, LoopBody(g, width, height, st, 1))

\* fire_laser as a function: the final frame; its count is the return value.
fire_laser(g, start) ==
  IF g = << >> THEN [FireEntry(g, start) EXCEPT !.panic = TRUE]
  ELSE FireLoop(g, Len(g[1]), Len(g), FireEntry(g, start))

\* ------------------------------------------------------------ day16: part1, part2

\* The start cursor of part1 (lines 167-171).
Part1Start == Laser(0, 0, "Right")

\* EdgeStarts with bottom_side copied from top_side and only its direction
\* changed: y stays 0.
EdgeStartsBottomAtTop(width, height) ==
  [i \in 1..height |-> Laser(0, i - 1, "Right")]
    \o [i \in 1..height |-> Laser(width - 1, i - 1, "Left")]
    \o [i \in 1..width |-> Laser(i - 1, 0, "Down")]
    \o [i \in 1..width |-> Laser(i - 1, 0, "Up")]

\* EdgeStarts without left_side at the head of the chain.
EdgeStartsNoLeft(width, height) ==
  [i \in 1..height |-> Laser(width - 1, i - 1, "Left")]
    \o [i \in 1..width |-> Laser(i - 1, 0, "Down")]
    \o [i \in 1..width |-> Laser(i - 1, height - 1, "Up")]

\* left_side.chain(right_side).chain(top_side).chain(bottom_side) of part2
\* (lines 179-203), in iteration order.
EdgeStarts(width, height) ==
  [i \in 1..height |-> Laser(0, i - 1, "Right")]
    \o [i \in 1..height |-> Laser(width - 1, i - 1, "Left")]
    \o [i \in 1..width |-> Laser(i - 1, 0, "Down")]
    \o [i \in 1..width |-> Laser(i - 1, height - 1, "Up")]

\* ------------------------------------------------------------ day16: inputs

\* The cells of a grid, as <<row, column>> indices.
Cells(g) == UNION {{<<y, x>> : x \in DOMAIN g[y]} : y \in DOMAIN g}

\* The number of mirrors and splitters of a grid.
SpecialCount(g) == Cardinality({p \in Cells(g) : g[p[1]][p[2]] # "Empty"})

Shapes == {d \in (1..MaxWide) \X (1..MaxWide) : d[1] * d[2] <= MaxWide}

\* The generated grids (rectangular, non-empty).
Grids ==
  UNION {{g \in [1..d[2] -> [1..d[1] -> Tile]] :
            d[1] * d[2] <= MaxArea \/ SpecialCount(g) <= MaxSpecial} : d \in Shapes}

\* Every in-bounds cursor of grid g.
Cursors(g) ==
  {Laser(x, y, d) : x \in 0..(Len(g[1]) - 1), y \in 0..(Len(g) - 1), d \in Direction}

\* The text of a grid, line by line.
TextOf(g) == [y \in DOMAIN g |-> [x \in DOMAIN g[y] |-> CharFrom(g[y][x])]]

\* TEST_INPUT of the tests, line by line.
TEST_INPUT ==
  <<
     << ".", "|", ".", ".", ".", "\\", ".", ".", ".", "." >>,
     << "|", ".", "-", ".", "\\", ".", ".", ".", ".", "." >>,
     << ".", ".", ".", ".", ".", "|", "-", ".", ".", "." >>,
     << ".", ".", ".", ".", ".", ".", ".", ".", "|", "." >>,
     << ".", ".", ".", ".", ".", ".", ".", ".", ".", "." >>,
     << ".", ".", ".", ".", ".", ".", ".", ".", ".", "\\" >>,
     << ".", ".", ".", ".", "/", ".", "\\", "\\", ".", "." >>,
     << ".", "-", ".", "-", "/", ".", ".", "|", ".", "." >>,
     << ".", "|", ".", ".", ".", ".", "-", "|", ".", "\\" >>,
     << ".", ".", "/", "/", ".", "|", ".", ".", ".", "." >>
  >>

\* ------------------------------------------------------------ day16: the calls

\* fire_laser's frame as LoopBody takes it.
Frame == [lasers |-> lasers, seen |-> seen, result |-> result, panic |-> pc = "panic"]

\* fire_laser is entered with `start` (lines 134-142); grid[0] panics on no lines.
Enter(g, start) ==
  /\ start_laser' = start
  /\ fired' = Append(fired, start)
  /\ IF g = << >>
       THEN /\ pc' = "panic"
            /\ UNCHANGED <<lasers, seen, result>>
       ELSE /\ lasers' = FireEntry(g, start).lasers
            /\ seen' = FireEntry(g, start).seen
            /\ result' = FireEntry(g, start).result
            /\ pc' = "loop"

\* One iteration of the while loop taking the i-th laser of the worklist.
Iterate(i) ==
  LET st == LoopBody(grid, Len(grid[1]), Len(grid), Frame, i)
  IN /\ lasers' = st.lasers
     /\ seen' = st.seen
     /\ result' = st.result
     /\ pc' = IF st.panic THEN "panic" ELSE "loop"

\* ------------------------------------------------------------ day16: fire_laser called directly

\* A test fires the cursors of `starts`, one call after the other, on grid g.
InitCalls(g, starts) ==
  /\ grid = g
  /\ input = TextOf(g)
  /\ todo = starts
  /\ start_laser = Head(starts)
  /\ lasers = << >>
  /\ seen = {}
  /\ result = << >>
  /\ pc = "call"
  /\ caller = "test"
  /\ fired = << >>
  /\ rets = << >>
  /\ max = 0
  /\ answer1 = -1
  /\ answer2 = -1
  /\ RestIdle16

\* Any generated grid, any in-bounds cursor, fired twice in a row.
Init == \E g \in Grids : \E c \in Cursors(g) : InitCalls(g, << c, c >>)

\* The test calls fire_laser with its next cursor.
Call ==
  /\ pc = "call"
  /\ UNCHANGED Rest16
  /\ todo # << >>
  /\ todo' = Tail(todo)
  /\ Enter(grid, Head(todo))
  /\ UNCHANGED <<input, grid, caller, rets, max, answer1, answer2>>

\* One iteration of the while loop (lines 143-161): pop_front.
Loop ==
  /\ pc = "loop"
  /\ UNCHANGED Rest16
  /\ lasers # << >>
  /\ Iterate(1)
  /\ UNCHANGED <<input, grid, start_laser, caller, todo, fired, rets, max,
                 answer1, answer2>>

\* The worklist is empty: fire_laser returns its count to the test (line 162).
Return ==
  /\ pc = "loop"
  /\ UNCHANGED Rest16
  /\ lasers = << >>
  /\ caller = "test"
  /\ rets' = Append(rets, CountTrue(result))
  /\ pc' = IF todo = << >> THEN "done" ELSE "call"
  /\ UNCHANGED <<input, grid, start_laser, lasers, seen, result, caller, todo,
                 fired, max, answer1, answer2>>

Next == Call \/ Loop \/ Return

Spec == Init /\ [][Next]_vars

\* Any grid of at most MaxArea cells, any in-bounds cursor, fired once.
InitDense ==
  \E g \in {d \in Grids : Len(d) * Len(d[1]) <= MaxArea} :
    \E c \in Cursors(g) : InitCalls(g, << c >>)

\* The program runs to its end: a step that can be taken is taken.
FairSpec == InitDense /\ [][Next]_vars /\ WF_vars(Next)

\* ------------------------------------------------------------ day16: the worklist in any order

\* Any generated grid, any in-bounds cursor, fired once.
InitOnce == \E g \in Grids : \E c \in Cursors(g) : InitCalls(g, << c >>)

\* The while loop of fire_laser with the pop generalised: any laser of the
\* worklist is taken (the first is pop_front, the last is pop_back).
LoopAny ==
  /\ pc = "loop"
  /\ UNCHANGED Rest16
  /\ lasers # << >>
  /\ \E i \in 1..Len(lasers) : Iterate(i)
  /\ UNCHANGED <<input, grid, start_laser, caller, todo, fired, rets, max,
                 answer1, answer2>>

NextAnyOrder == Call \/ LoopAny \/ Return

SpecAnyOrder == InitOnce /\ [][NextAnyOrder]_vars

\* ------------------------------------------------------------ day16: main

\* main on the text of a generated grid or on TEST_INPUT.
InitMain ==
  /\ input \in {TextOf(g) : g \in Grids} \cup {TEST_INPUT}
  /\ grid = << >>
  /\ todo = << >>
  /\ start_laser = Part1Start
  /\ lasers = << >>
  /\ seen = {}
  /\ result = << >>
  /\ pc = "part1"
  /\ caller = "main"
  /\ fired = << >>
  /\ rets = << >>
  /\ max = 0
  /\ answer1 = -1
  /\ answer2 = -1
  /\ RestIdle16

\* part1 parses the text and calls fire_laser (lines 166-172).
Part1 ==
  /\ pc = "part1"
  /\ UNCHANGED Rest16
  /\ IF ParsePanics(input)
       THEN /\ pc' = "panic"
            /\ UNCHANGED <<grid, start_laser, lasers, seen, result, caller, fired>>
       ELSE /\ grid' = parse_input(input)
            /\ caller' = "part1"
            /\ Enter(parse_input(input), Part1Start)
  /\ UNCHANGED <<input, todo, rets, max, answer1, answer2>>

\* fire_laser returns to part1, which returns to main (lines 162, 172, 215).
Part1Return ==
  /\ pc = "loop"
  /\ UNCHANGED Rest16
  /\ lasers = << >>
  /\ caller = "part1"
  /\ rets' = Append(rets, CountTrue(result))
  /\ answer1' = CountTrue(result)
  /\ pc' = "part2"
  /\ caller' = "main"
  /\ UNCHANGED <<input, grid, start_laser, lasers, seen, result, todo, fired,
                 max, answer2>>

\* part2 parses the text and builds the chain of edge cursors (lines 176-199);
\* grid[0] panics on no lines.
Part2 ==
  /\ pc = "part2"
  /\ UNCHANGED Rest16
  /\ IF ParsePanics(input) \/ parse_input(input) = << >>
       THEN /\ pc' = "panic"
            /\ UNCHANGED <<grid, caller, todo, max>>
       ELSE /\ grid' = parse_input(input)
            /\ todo' = EdgeStarts(Len(parse_input(input)[1]), Len(parse_input(input)))
            /\ max' = 0
            /\ caller' = "part2"
            /\ pc' = "next"
  /\ UNCHANGED <<input, start_laser, lasers, seen, result, fired, rets,
                 answer1, answer2>>

\* The for loop of part2 takes its next cursor and calls fire_laser (line 205).
Part2Call ==
  /\ pc = "next"
  /\ UNCHANGED Rest16
  /\ todo # << >>
  /\ todo' = Tail(todo)
  /\ Enter(grid, Head(todo))
  /\ UNCHANGED <<input, grid, caller, rets, max, answer1, answer2>>

\* fire_laser returns to part2, which keeps the larger value (lines 162, 206-208).
Part2Return ==
  /\ pc = "loop"
  /\ UNCHANGED Rest16
  /\ lasers = << >>
  /\ caller = "part2"
  /\ rets' = Append(rets, CountTrue(result))
  /\ max' = IF CountTrue(result) > max THEN CountTrue(result) ELSE max
  /\ pc' = "next"
  /\ UNCHANGED <<input, grid, start_laser, lasers, seen, result, caller, todo,
                 fired, answer1, answer2>>

\* The chain is exhausted: part2 returns max to main (lines 210, 217).
Part2Done ==
  /\ pc = "next"
  /\ UNCHANGED Rest16
  /\ todo = << >>
  /\ answer2' = max
  /\ pc' = "done"
  /\ caller' = "main"
  /\ UNCHANGED <<input, grid, start_laser, lasers, seen, result, todo, fired,
                 rets, max, answer1>>

NextMain == Part1 \/ Loop \/ Part1Return \/ Part2 \/ Part2Call \/ Part2Return \/ Part2Done

SpecMain == InitMain /\ [][NextMain]_vars

\* ------------------------------------------------------------ day16: main on any text

\* The characters of the generated texts: two tiles and one that is no tile.
TextChars == {".", "/", "x"}

\* The generated lines, the empty line included.
TextLines == UNION {[1..n -> TextChars] : n \in 0..MaxLineLen}

\* The generated texts: any lines, of equal length or not, and the empty text.
Texts == UNION {[1..n -> TextLines] : n \in 0..MaxLines}

\* main on a generated text.
InitText ==
  /\ input \in Texts
  /\ grid = << >>
  /\ todo = << >>
  /\ start_laser = Part1Start
  /\ lasers = << >>
  /\ seen = {}
  /\ result = << >>
  /\ pc = "part1"
  /\ caller = "main"
  /\ fired = << >>
  /\ rets = << >>
  /\ max = 0
  /\ answer1 = -1
  /\ answer2 = -1
  /\ RestIdle16

SpecText == InitText /\ [][NextMain]_vars

\* ------------------------------------------------------------ day19: ranges

\* Range::contains (lines 325-327): both ends count.
RangeContains(r, num) == r.start <= num /\ num <= r.start + r.size

\* PartRange::contains (lines 365-370).
PartRangeContains(r, part) ==
  /\ RangeContains(r.x, part.x)
  /\ RangeContains(r.m, part.m)
  /\ RangeContains(r.a, part.a)
  /\ RangeContains(r.s, part.s)

\* Range::default (lines 306-313), on the ratings 0..MaxRating.
RangeDefault == [start |-> 0, size |-> MaxRating + 1]

Ratings == 0..MaxRating

\* The body of the closure's loop over m (lines 625-632): the parts with this
\* x and m that some range contains.
Accepted(rs, x, m) ==
  Cardinality({p \in Ratings \X Ratings :
     \E i \in DOMAIN rs :
        PartRangeContains(rs[i], [x |-> x, m |-> m, a |-> p[1], s |-> p[2]])})

\* The generated ranges: whole ones, from any start.
Ranges19 == {[start |-> b, size |-> MaxRating + 1] : b \in Ratings}

PartRanges19 ==
  {[x |-> rx, m |-> rm, a |-> RangeDefault, s |-> RangeDefault] :
     rx \in Ranges19, rm \in Ranges19}

\* The generated values of part_ranges: no range, one range, and two that overlap.
RangeLists ==
  {<< >>} \cup {<< r >> : r \in PartRanges19}
    \cup {<< [x |-> [start |-> MaxRating, size |-> 0], m |-> RangeDefault,
              a |-> RangeDefault, s |-> [start |-> 0, size |-> 0]],
             [x |-> RangeDefault, m |-> [start |-> 1, size |-> MaxRating],
              a |-> RangeDefault, s |-> RangeDefault] >>}

\* ------------------------------------------------------------ day19: part2

Workers == 1..PoolSize

\* The holder of the senders part2 made itself (lines 616-617), beside the
\* closures' clones, which go by their x.
OwnHandle == -1

IdleThread == [x |-> -1, m |-> 0, at |-> "idle"]

\* part2 has the ranges and has made its channels and the pool (lines 607-618).
Init19 ==
  /\ ranges \in RangeLists
  /\ part2_pc = "execute"
  /\ next_x = 0
  /\ pool_jobs = << >>
  /\ pool_threads = [w \in Workers |-> IdleThread]
  /\ tx_handles = {OwnHandle}
  /\ done_tx_handles = {OwnHandle}
  /\ rx_queue = << >>
  /\ done_rx_queue = << >>
  /\ count_rx_queue = << >>
  /\ count = 0
  /\ summer_pc = "unspawned"
  /\ done = 0
  /\ progress_pc = "unspawned"
  /\ ret19 = -1
  /\ RestIdle19

\* One step of part2's own thread (lines 619-653): the for loop clones both
\* senders into a closure and queues it; then the two threads are spawned; then
\* count_rx.recv() waits for a total. Returning drops part2's own tx and done_tx.
Part2Thread ==
  /\ part2_pc \in {"execute", "spawn_progress", "spawn_summer", "recv"}
  /\ UNCHANGED Rest19
  /\ CASE part2_pc = "execute" ->
            /\ pool_jobs' = Append(pool_jobs, next_x)
            /\ tx_handles' = tx_handles \cup {next_x}
            /\ done_tx_handles' = done_tx_handles \cup {next_x}
            /\ next_x' = next_x + 1
            /\ part2_pc' = IF next_x = MaxRating THEN "spawn_progress" ELSE "execute"
            /\ UNCHANGED <<ranges, pool_threads, rx_queue, done_rx_queue, count_rx_queue,
                           count, summer_pc, done, progress_pc, ret19>>
       [] part2_pc = "spawn_progress" ->
            /\ progress_pc' = "recv"
            /\ part2_pc' = "spawn_summer"
            /\ UNCHANGED <<ranges, next_x, pool_jobs, pool_threads, tx_handles,
                           done_tx_handles, rx_queue, done_rx_queue, count_rx_queue,
                           count, summer_pc, done, ret19>>
       [] part2_pc = "spawn_summer" ->
            /\ summer_pc' = "recv"
            /\ part2_pc' = "recv"
            /\ UNCHANGED <<ranges, next_x, pool_jobs, pool_threads, tx_handles,
                           done_tx_handles, rx_queue, done_rx_queue, count_rx_queue,
                           count, done, progress_pc, ret19>>
       [] part2_pc = "recv" ->
            /\ count_rx_queue # << >>
            /\ ret19' = Head(count_rx_queue)
            /\ count_rx_queue' = Tail(count_rx_queue)
            /\ tx_handles' = tx_handles \ {OwnHandle}
            /\ done_tx_handles' = done_tx_handles \ {OwnHandle}
            /\ part2_pc' = "returned"
            /\ UNCHANGED <<ranges, next_x, pool_jobs, pool_threads, rx_queue,
                           done_rx_queue, count, summer_pc, done, progress_pc>>

\* One step of a pool thread: it takes the oldest queued closure, or runs the
\* next statement of its closure (lines 623-636): tx.send(accepted), then
\* done_tx.send(()); after the last m the closure ends and its senders drop.
PoolThread(w) ==
  /\ part2_pc # "idle"
  /\ UNCHANGED Rest19
  /\ CASE pool_threads[w].at = "idle" ->
            /\ pool_jobs # << >>
            /\ pool_threads' = [pool_threads EXCEPT ![w] = [x |-> Head(pool_jobs), m |-> 0, at |-> "tx_send"]]
            /\ pool_jobs' = Tail(pool_jobs)
            /\ UNCHANGED <<tx_handles, done_tx_handles, rx_queue, done_rx_queue>>
       [] pool_threads[w].at = "tx_send" ->
            /\ rx_queue' = Append(rx_queue, Accepted(ranges, pool_threads[w].x, pool_threads[w].m))
            /\ pool_threads' = [pool_threads EXCEPT ![w].at = "done_tx_send"]
            /\ UNCHANGED <<pool_jobs, tx_handles, done_tx_handles, done_rx_queue>>
       [] pool_threads[w].at = "done_tx_send" ->
            /\ done_rx_queue' = Append(done_rx_queue, << >>)
            /\ IF pool_threads[w].m = MaxRating
                 THEN /\ pool_threads' = [pool_threads EXCEPT ![w] = IdleThread]
                      /\ tx_handles' = tx_handles \ {pool_threads[w].x}
                      /\ done_tx_handles' = done_tx_handles \ {pool_threads[w].x}
                 ELSE /\ pool_threads' = [pool_threads EXCEPT ![w].m = @ + 1, ![w].at = "tx_send"]
                      /\ UNCHANGED <<tx_handles, done_tx_handles>>
            /\ UNCHANGED <<pool_jobs, rx_queue>>
  /\ UNCHANGED <<ranges, part2_pc, next_x, count_rx_queue, count, summer_pc, done,
                 progress_pc, ret19>>

PoolStep == \E w \in Workers : PoolThread(w)

\* One rx.recv() of the summing thread (lines 646-652): a waiting count is
\* added; recv fails only when the queue is empty and every Sender is dropped,
\* and then the total goes out on count_tx.
Summer ==
  /\ summer_pc = "recv"
  /\ UNCHANGED Rest19
  /\ IF rx_queue # << >>
       THEN /\ count' = count + Head(rx_queue)
            /\ rx_queue' = Tail(rx_queue)
            /\ UNCHANGED <<count_rx_queue, summer_pc>>
       ELSE /\ tx_handles = {}
            /\ count_rx_queue' = Append(count_rx_queue, count)
            /\ summer_pc' = "ended"
            /\ UNCHANGED <<count, rx_queue>>
  /\ UNCHANGED <<ranges, part2_pc, next_x, pool_jobs, pool_threads, tx_handles,
                 done_tx_handles, done_rx_queue, done, progress_pc, ret19>>

\* One done_rx.recv() of the progress thread (lines 639-645).
Progress ==
  /\ progress_pc = "recv"
  /\ UNCHANGED Rest19
  /\ IF done_rx_queue # << >>
       THEN /\ done' = done + 1
            /\ done_rx_queue' = Tail(done_rx_queue)
            /\ UNCHANGED progress_pc
       ELSE /\ done_tx_handles = {}
            /\ progress_pc' = "ended"
            /\ UNCHANGED <<done, done_rx_queue>>
  /\ UNCHANGED <<ranges, part2_pc, next_x, pool_jobs, pool_threads, tx_handles,
                 done_tx_handles, rx_queue, count_rx_queue, count, summer_pc, ret19>>

Next19 == Part2Thread \/ PoolStep \/ Summer \/ Progress

Spec19 == Init19 /\ [][Next19]_vars

\* ------------------------------------------------------------ day17: moves

\* Direction::opposite (lines 13-20).
opposite(direction) ==
  CASE direction = "Up" -> "Down"
    [] direction = "Down" -> "Up"
    [] direction = "Left" -> "Right"
    [] direction = "Right" -> "Left"

Move(distance, x, y, steps, direction) ==
  [distance |-> distance, x |-> x, y |-> y, steps |-> steps, direction |-> direction]

\* Move::start (lines 53-61).
MoveStart == Move(0, 0, 0, 0, "Right")

\* Move's PartialEq and Hash (lines 32-50): the distance is no part of the key.
MoveKey(mv) == << mv.x, mv.y, mv.steps, mv.direction >>

\* Move::can_move (lines 63-79).
can_move(mv, direction, part_2) ==
  IF opposite(mv.direction) = direction THEN FALSE
  ELSE IF mv.direction = direction
         THEN (IF part_2 THEN mv.steps < 10 ELSE mv.steps < 3)
         ELSE (IF part_2 THEN mv.steps >= 4 ELSE TRUE)

\* Move::in_bounds (lines 81-88).
in_bounds(mv, width, height, direction) ==
  CASE direction = "Left" -> mv.x > 0
    [] direction = "Right" -> mv.x < width - 1
    [] direction = "Up" -> mv.y > 0
    [] direction = "Down" -> mv.y < height - 1

\* Move::apply_move (lines 90-114).
apply_move(mv, g, direction) ==
  LET x == CASE direction = "Left" -> mv.x - 1
             [] direction = "Right" -> mv.x + 1
             [] OTHER -> mv.x
      y == CASE direction = "Up" -> mv.y - 1
             [] direction = "Down" -> mv.y + 1
             [] OTHER -> mv.y
      steps == IF mv.direction = direction THEN mv.steps + 1 ELSE 1
  IN Move(mv.distance + g[y + 1][x + 1], x, y, steps, direction)

\* get_neighbors (lines 133-148): Up, Down, Left, Right, in this order.
get_neighbors(g, cur_move, part_2) ==
  LET dirs == << "Up", "Down", "Left", "Right" >>
      RECURSIVE From(_)
      From(i) ==
        IF i > Len(dirs) THEN << >>
        ELSE IF can_move(cur_move, dirs[i], part_2)
                  /\ in_bounds(cur_move, Len(g[1]), Len(g), dirs[i])
               THEN << apply_move(cur_move, g, dirs[i]) >> \o From(i + 1)
               ELSE From(i + 1)
  IN From(1)

\* initialize_prevs (lines 129-131).
initialize_prevs(g) == [y \in 1..Len(g) |-> [x \in 1..Len(g[y]) |-> << >>]]

\* queue.remove(&next_move); queue.push(next_move, ..) (lines 164-165, 169-170).
Requeue(q, mv) == {o \in q : MoveKey(o) # MoveKey(mv)} \cup {mv}

\* seen.insert(next_move) (line 172): a move that is there stays as it is.
SeenInsert(sn, mv) ==
  IF \E o \in sn : MoveKey(o) = MoveKey(mv) THEN sn ELSE sn \cup {mv}

\* The for loop of find_path (lines 157-173) from its i-th neighbour on;
\* st.ret holds the value returned at the goal, and ends the loop.
RECURSIVE ForNeighbors(_, _, _, _, _)
ForNeighbors(g, cur_move, ns, i, st) ==
  IF i > Len(ns) THEN st
  ELSE
    LET next_move == ns[i]
        old == {o \in st.seen : MoveKey(o) = MoveKey(next_move)}
        set == [st EXCEPT !.prevs[next_move.y + 1][next_move.x + 1] =
                             << << cur_move.y, cur_move.x >> >>,
                          !.queue = Requeue(@, next_move)]
    IN IF next_move.x = Len(g[1]) - 1 /\ next_move.y = Len(g) - 1
         THEN [st EXCEPT !.ret = << next_move.distance >>]
         ELSE ForNeighbors(g, cur_move, ns, i + 1,
                [(IF old = {} \/ (\E o \in old : next_move.distance < o.distance)
                    THEN set ELSE st)
                   EXCEPT !.seen = SeenInsert(@, next_move)])

\* ------------------------------------------------------------ day17: find_path

Digits17 == {1, 9}

\* Every grid of the digits with at most n cells.
SmallGrids17(n) ==
  UNION {[1..sz[1] -> [1..sz[2] -> Digits17]] :
           sz \in {d \in (1..n) \X (1..n) : d[1] * d[2] <= n}}

\* The grids with sides up to n made of two digits: one on the top row and the
\* right column, one everywhere else.
FramedGrids17(n) ==
  {[y \in 1..h |-> [x \in 1..w |-> IF y = 1 \/ x = w THEN a ELSE b]] :
     h \in 1..n, w \in 1..n, a \in Digits17, b \in Digits17}

\* find_path is called (lines 151-155).
Init17 ==
  /\ \/ is_part_2 = FALSE /\ grid17 \in SmallGrids17(MaxArea17)
     \/ is_part_2 = TRUE /\ grid17 \in FramedGrids17(MaxSide17)
  /\ queue = {MoveStart}
  /\ prevs = initialize_prevs(grid17)
  /\ seen17 = {}
  /\ pc17 = "loop"
  /\ ret17 = -1
  /\ RestIdle17

\* One iteration of the while loop (lines 156-174): queue.pop() takes a move
\* of the least distance, whichever of them the queue holds first.
Pop17 ==
  /\ pc17 = "loop"
  /\ queue # {}
  /\ UNCHANGED Rest17
  /\ \E cur_move \in {c \in queue : \A o \in queue : c.distance <= o.distance} :
       LET st == ForNeighbors(grid17, cur_move,
                   get_neighbors(grid17, cur_move, is_part_2), 1,
                   [queue |-> queue \ {cur_move}, seen |-> seen17,
                    prevs |-> prevs, ret |-> << >>])
       IN /\ queue' = st.queue
          /\ seen17' = st.seen
          /\ prevs' = st.prevs
          /\ IF st.ret # << >>
               THEN pc17' = "returned" /\ ret17' = st.ret[1]
               ELSE UNCHANGED <<pc17, ret17>>
  /\ UNCHANGED <<grid17, is_part_2>>

\* The queue is empty: panic!("No path found!") (line 175).
NoPath17 ==
  /\ pc17 = "loop"
  /\ queue = {}
  /\ pc17' = "panic"
  /\ UNCHANGED <<grid17, is_part_2, queue, seen17, prevs, ret17>>
  /\ UNCHANGED Rest17

Next17 == Pop17 \/ NoPath17

Spec17 == Init17 /\ [][Next17]_vars

\* ------------------------------------------------------------ day14: tilts

Tile14 == {"Empty", "Flat", "Round"}

\* The scans for new_y and new_x (lines 89-96, 113-120, 137-144, 161-168): the
\* farthest cell reached over Empty tiles only; the rock's own cell if none.
NewYNorth(rows, x, y) ==
  CHOOSE c \in 1..y :
    /\ \A k \in c..(y - 1) : rows[k][x] = "Empty"
    /\ (c = 1 \/ rows[c - 1][x] # "Empty")

\* The scan of tilt_south stopped after the first cell.
NewYSouthOneStep(rows, x, y) ==
  IF y < Len(rows) /\ rows[y + 1][x] = "Empty" THEN y + 1 ELSE y

NewYSouth(rows, x, y) ==
  CHOOSE c \in y..Len(rows) :
    /\ \A k \in (y + 1)..c : rows[k][x] = "Empty"
    /\ (c = Len(rows) \/ rows[c + 1][x] # "Empty")

NewXWest(rows, x, y) ==
  CHOOSE c \in 1..x :
    /\ \A k \in c..(x - 1) : rows[y][k] = "Empty"
    /\ (c = 1 \/ rows[y][c - 1] # "Empty")

NewXEast(rows, x, y) ==
  CHOOSE c \in x..Len(rows[1]) :
    /\ \A k \in (x + 1)..c : rows[y][k] = "Empty"
    /\ (c = Len(rows[1]) \/ rows[y][c + 1] # "Empty")

\* The body of the loops (lines 88-101, 112-125, 136-149, 160-173): a round
\* rock goes to its new place.
MoveRock(rows, x, y, new_x, new_y) ==
  IF rows[y][x] = "Round" /\ << x, y >> # << new_x, new_y >>
    THEN [[rows EXCEPT ![new_y][new_x] = "Round"] EXCEPT ![y][x] = "Empty"]
    ELSE rows

MoveNorth(rows, x, y) ==
  IF rows[y][x] = "Round" THEN MoveRock(rows, x, y, x, NewYNorth(rows, x, y)) ELSE rows

MoveSouth(rows, x, y) ==
  IF rows[y][x] = "Round" THEN MoveRock(rows, x, y, x, NewYSouth(rows, x, y)) ELSE rows

MoveWest(rows, x, y) ==
  IF rows[y][x] = "Round" THEN MoveRock(rows, x, y, NewXWest(rows, x, y), y) ELSE rows

MoveEast(rows, x, y) ==
  IF rows[y][x] = "Round" THEN MoveRock(rows, x, y, NewXEast(rows, x, y), y) ELSE rows

\* tilt_north's loops (lines 86-103): for each x upwards, y upwards.
RECURSIVE NorthColumn(_, _, _)
NorthColumn(rows, x, y) ==
  IF y > Len(rows) THEN rows ELSE NorthColumn(MoveNorth(rows, x, y), x, y + 1)

RECURSIVE NorthRows(_, _)
NorthRows(rows, x) ==
  IF x > Len(rows[1]) THEN rows ELSE NorthRows(NorthColumn(rows, x, 1), x + 1)

\* tilt_south's loops (lines 110-127): for each x upwards, y from the last row
\* but one down.
RECURSIVE SouthColumn(_, _, _)
SouthColumn(rows, x, y) ==
  IF y < 1 THEN rows ELSE SouthColumn(MoveSouth(rows, x, y), x, y - 1)

RECURSIVE SouthRows(_, _)
SouthRows(rows, x) ==
  IF x > Len(rows[1]) THEN rows
  ELSE SouthRows(SouthColumn(rows, x, Len(rows) - 1), x + 1)

\* tilt_west's loops (lines 134-151): for each y upwards, x upwards.
RECURSIVE WestRow(_, _, _)
WestRow(rows, x, y) ==
  IF x > Len(rows[1]) THEN rows ELSE WestRow(MoveWest(rows, x, y), x + 1, y)

RECURSIVE WestRows(_, _)
WestRows(rows, y) ==
  IF y > Len(rows) THEN rows ELSE WestRows(WestRow(rows, 1, y), y + 1)

\* tilt_east's loops (lines 158-175): for each y upwards, x from the last
\* column but one down.
RECURSIVE EastRow(_, _, _)
EastRow(rows, x, y) ==
  IF x < 1 THEN rows ELSE EastRow(MoveEast(rows, x, y), x - 1, y)

RECURSIVE EastRows(_, _)
EastRows(rows, y) ==
  IF y > Len(rows) THEN rows
  ELSE EastRows(EastRow(rows, Len(rows[1]) - 1, y), y + 1)

\* ------------------------------------------------------------ day14: Map

\* rows.iter().flatten().copied().collect() (lines 63, 75).
RECURSIVE Flatten(_)
Flatten(rows) == IF rows = << >> THEN << >> ELSE Head(rows) \o Flatten(Tail(rows))

\* Map::from (lines 57-71), from the parsed rows.
MapFrom(rows) ==
  [rows |-> rows, compressed |-> 0, compressed_cache |-> << Flatten(rows) >>,
   cache |-> << >>]

\* Map::update_compression (lines 74-82); compressed is an index from 0.
update_compression(m) ==
  LET compressed == Flatten(m.rows)
      found == {i \in DOMAIN m.compressed_cache : m.compressed_cache[i] = compressed}
  IN IF found # {}
       THEN [m EXCEPT !.compressed = (CHOOSE i \in found : \A j \in found : i <= j) - 1]
       ELSE [m EXCEPT !.compressed_cache = Append(@, compressed),
                      !.compressed = Len(m.compressed_cache)]

\* Map::tilt_north (lines 84-106).
tilt_north(m) == update_compression([m EXCEPT !.rows = NorthRows(m.rows, 1)])

\* Map::tilt_south (lines 108-130).
tilt_south(m) == update_compression([m EXCEPT !.rows = SouthRows(m.rows, 1)])

\* Map::tilt_west (lines 132-154).
tilt_west(m) == update_compression([m EXCEPT !.rows = WestRows(m.rows, 1)])

\* Map::tilt_east (lines 156-178).
tilt_east(m) == update_compression([m EXCEPT !.rows = EastRows(m.rows, 1)])

\* rotate with the result cached under the index of the result, not under
\* the index rotate started on.
rotate_key_after(m) ==
  IF m.compressed \in DOMAIN m.cache
    THEN [m EXCEPT !.rows = m.cache[m.compressed][1],
                   !.compressed = m.cache[m.compressed][2]]
    ELSE LET t == tilt_east(tilt_south(tilt_west(tilt_north(m))))
         IN [t EXCEPT !.cache =
               [k \in DOMAIN t.cache \cup {t.compressed} |->
                  IF k = t.compressed THEN << t.rows, t.compressed >> ELSE t.cache[k]]]

\* Map::rotate (lines 180-194); cache is a function from the keys it holds.
rotate(m) ==
  IF m.compressed \in DOMAIN m.cache
    THEN [m EXCEPT !.rows = m.cache[m.compressed][1],
                   !.compressed = m.cache[m.compressed][2]]
    ELSE LET old == m.compressed
             t == tilt_east(tilt_south(tilt_west(tilt_north(m))))
         IN [t EXCEPT !.cache =
               [k \in DOMAIN t.cache \cup {old} |->
                  IF k = old THEN << t.rows, t.compressed >> ELSE t.cache[k]]]

\* Map::compute_load (lines 196-203): the last row weighs 1.
RECURSIVE compute_load_from(_, _)
compute_load_from(rows, y) ==
  IF y > Len(rows) THEN 0
  ELSE (Len(rows) - y + 1) * Cardinality({x \in DOMAIN rows[y] : rows[y][x] = "Round"})
         + compute_load_from(rows, y + 1)

compute_load(m) == compute_load_from(m.rows, 1)

\* ------------------------------------------------------------ day14: part2 and the tilts

\* Tile::from (lines 10-19), on the characters of the tests' maps.
TileFrom14(c) ==
  CASE c = "." -> "Empty"
    [] c = "#" -> "Flat"
    [] c = "O" -> "Round"

\* TEST_INPUT of the tests (lines 232-241), line by line.
TEST_INPUT14 ==
  <<
     << "O", ".", ".", ".", ".", "#", ".", ".", ".", "." >>,
     << "O", ".", "O", "O", "#", ".", ".", ".", ".", "#" >>,
     << ".", ".", ".", ".", ".", "#", "#", ".", ".", "." >>,
     << "O", "O", ".", "#", "O", ".", ".", ".", ".", "O" >>,
     << ".", "O", ".", ".", ".", ".", ".", "O", "#", "." >>,
     << "O", ".", "#", ".", ".", "O", ".", "#", ".", "#" >>,
     << ".", ".", "O", ".", ".", "#", "O", ".", ".", "O" >>,
     << ".", ".", ".", ".", ".", ".", ".", "O", ".", "." >>,
     << "#", ".", ".", ".", ".", "#", "#", "#", ".", "." >>,
     << "#", "O", "O", ".", ".", "#", ".", ".", ".", "." >>
  >>

\* The rows Map::from parses from a text (lines 59-62).
RowsFrom(text) == [y \in DOMAIN text |-> [x \in DOMAIN text[y] |-> TileFrom14(text[y][x])]]

\* Every map of at most MaxArea14 cells.
Grids14 ==
  UNION {[1..sz[1] -> [1..sz[2] -> Tile14]] :
           sz \in {d \in (1..MaxArea14) \X (1..MaxArea14) : d[1] * d[2] <= MaxArea14}}

\* A Map is made from any generated map or from the tests' map (lines 207, 213).
Init14 ==
  /\ \E g \in Grids14 \cup {RowsFrom(TEST_INPUT14)} :
       /\ map = MapFrom(g)
       /\ map0 = g
       /\ rows_before = g
  /\ calls = << >>
  /\ pc14 = "loop"
  /\ ret14 = -1
  /\ RestIdle14

\* One iteration of part2's loop (lines 214-216).
Rotate ==
  /\ pc14 = "loop"
  /\ Len(calls) < MaxRotations
  /\ map' = rotate(map)
  /\ rows_before' = map.rows
  /\ calls' = Append(calls, "rotate")
  /\ UNCHANGED <<map0, pc14, ret14>>
  /\ UNCHANGED Rest14

\* part2's loop is over: the load is returned (line 217).
Load ==
  /\ pc14 = "loop"
  /\ Len(calls) = MaxRotations
  /\ ret14' = compute_load(map)
  /\ pc14' = "returned"
  /\ UNCHANGED <<map, map0, rows_before, calls>>
  /\ UNCHANGED Rest14

NextRotate == Rotate \/ Load

SpecRotate == Init14 /\ [][NextRotate]_vars

\* A caller tilts the Map (lines 208, 306, 314, 322, 330).
Tilt(name, m) ==
  /\ pc14 = "loop"
  /\ Len(calls) < MaxTilts
  /\ map' = m
  /\ rows_before' = map.rows
  /\ calls' = Append(calls, name)
  /\ UNCHANGED <<map0, pc14, ret14>>
  /\ UNCHANGED Rest14

TiltNorth == Tilt("tilt_north", tilt_north(map))

TiltWest == Tilt("tilt_west", tilt_west(map))

TiltSouth == Tilt("tilt_south", tilt_south(map))

TiltEast == Tilt("tilt_east", tilt_east(map))

NextTilt == TiltNorth \/ TiltWest \/ TiltSouth \/ TiltEast

SpecTilt == Init14 /\ [][NextTilt]_vars

\* ------------------------------------------------------------ day15: HashMap

\* hash (lines 61-66), on the bytes of the string.
RECURSIVE hash_fold(_, _)
hash_fold(acc, bytes) ==
  IF bytes = << >> THEN acc
  ELSE hash_fold(((acc + Head(bytes)) * 17) % 256, Tail(bytes))

hash(bytes) == hash_fold(0, bytes)

Lens(label, value) == [label |-> label, value |-> value]

\* HashMap::default (lines 33-43): 256 empty boxes.
HashMapDefault == [h \in 0..255 |-> << >>]

\* insert with the lens always pushed at the back.
insert_push_back(bs, lens) ==
  [bs EXCEPT ![hash(lens.label)] = Append(@, lens)]

\* HashMap::insert (lines 46-53): find gives the first lens of the label.
insert(bs, lens) ==
  LET h == hash(lens.label)
      found == {i \in DOMAIN bs[h] : bs[h][i].label = lens.label}
  IN IF found # {}
       THEN [bs EXCEPT ![h][CHOOSE i \in found : \A j \in found : i <= j].value = lens.value]
       ELSE [bs EXCEPT ![h] = Append(@, lens)]

\* VecDeque::retain (line 57): the elements that pass, in their order.
RECURSIVE retain_other(_, _)
retain_other(bx, label) ==
  IF bx = << >> THEN << >>
  ELSE IF Head(bx).label # label
         THEN << Head(bx) >> \o retain_other(Tail(bx), label)
         ELSE retain_other(Tail(bx), label)

\* HashMap::remove (lines 55-58).
remove(bs, label) == [bs EXCEPT ![hash(label)] = retain_other(@, label)]

\* The labels of the operations, as bytes: "rn" and "cm" (both of box 0) and
\* "qp" (box 1) of the tests' input.
Labels15 == { << 114, 110 >>, << 99, 109 >>, << 113, 112 >> }

\* part2 has made the map (line 73).
Init15 ==
  /\ boxes = HashMapDefault
  /\ boxes_before = HashMapDefault
  /\ ops = << >>
  /\ RestIdle15

\* part2's loop takes an Insert (lines 74-76).
Insert15 ==
  /\ boxes # << >>
  /\ Len(ops) < MaxOps
  /\ \E label \in Labels15 : \E value \in 1..MaxValue :
       /\ boxes' = insert(boxes, Lens(label, value))
       /\ ops' = Append(ops, [op |-> "Insert", label |-> label, value |-> value])
  /\ boxes_before' = boxes
  /\ UNCHANGED Rest15

\* part2's loop takes a Remove (lines 74-77).
Remove15 ==
  /\ boxes # << >>
  /\ Len(ops) < MaxOps
  /\ \E label \in Labels15 :
       /\ boxes' = remove(boxes, label)
       /\ ops' = Append(ops, [op |-> "Remove", label |-> label, value |-> 0])
  /\ boxes_before' = boxes
  /\ UNCHANGED Rest15

Next15 == Insert15 \/ Remove15

Spec15 == Init15 /\ [][Next15]_vars

\* ------------------------------------------------------------ day20: parts

BROADCASTER == "broadcaster"
BUTTON == "button"

Pulse(state, source, destination) ==
  [state |-> state, source |-> source, destination |-> destination]

\* The pulses a part sends (lines 76-84, 94-101, 118-125): one to each of its
\* destinations, in their order.
Emit(id, destinations, state) ==
  [i \in DOMAIN destinations |-> Pulse(state, id, destinations[i])]

\* Part::process_pulse (lines 74-129): the part afterwards and the pulses it
\* sends; input_state is a function from the inputs' ids. A Button panics.
process_pulse(part, pulse) ==
  CASE part.kind = "Broadcaster" ->
         [part |-> part, out |-> Emit(part.id, part.destinations, pulse.state), panic |-> FALSE]
    [] part.kind = "FlipFlop" ->
         IF pulse.state = "High"
           THEN [part |-> part, out |-> << >>, panic |-> FALSE]
           ELSE [part |-> [part EXCEPT !.on = ~part.on],
                 out |-> Emit(part.id, part.destinations,
                              IF ~part.on THEN "High" ELSE "Low"),
                 panic |-> FALSE]
    [] part.kind = "Conjunction" ->
         IF pulse.source \notin DOMAIN part.input_state
           THEN [part |-> part, out |-> << >>, panic |-> TRUE]
           ELSE LET input_state == [part.input_state EXCEPT ![pulse.source] = pulse.state]
                IN [part |-> [part EXCEPT !.input_state = input_state],
                    out |-> Emit(part.id, part.destinations,
                                 IF \A n \in DOMAIN input_state : input_state[n] = "High"
                                   THEN "Low" ELSE "High"),
                    panic |-> FALSE]
    [] part.kind = "Button" -> [part |-> part, out |-> << >>, panic |-> TRUE]

\* The elements of a sequence.
Range(seq) == {seq[i] : i \in DOMAIN seq}

\* State::from (lines 145-172): the parsed parts and the button; each
\* Conjunction remembers Low for every part that has it as a destination.
StateFrom(parsed) ==
  LET with_button ==
        [id \in DOMAIN parsed \cup {BUTTON} |->
           IF id = BUTTON
             THEN [kind |-> "Button", destinations |-> << BROADCASTER >>]
             ELSE parsed[id]]
  IN [id \in DOMAIN with_button |->
        [kind |-> with_button[id].kind,
         id |-> id,
         destinations |-> with_button[id].destinations,
         on |-> FALSE,
         input_state |->
           IF with_button[id].kind = "Conjunction"
             THEN [n \in {o \in DOMAIN with_button : id \in Range(with_button[o].destinations)}
                     |-> "Low"]
             ELSE << >>]]

\* ------------------------------------------------------------ day20: part1

\* The destination lists of the generated modules: one or two different
\* names, "output" being no module.
Destinations20(names) ==
  {<< n >> : n \in names} \cup {d \in names \X names : d[1] # d[2]}

\* The generated networks: a broadcaster and the modules a and b, each a
\* flip-flop or a conjunction.
Networks ==
  {[id \in {BROADCASTER, "a", "b"} |->
      IF id = BROADCASTER THEN [kind |-> "Broadcaster", destinations |-> f[1]]
      ELSE IF id = "a" THEN [kind |-> f[2], destinations |-> f[3]]
      ELSE [kind |-> f[4], destinations |-> f[5]]] :
     f \in Destinations20({"a", "b"}) \X {"FlipFlop", "Conjunction"}
             \X Destinations20({"a", "b", "output"}) \X {"FlipFlop", "Conjunction"}
             \X Destinations20({"a", "b", "output"})}

\* TEST_SIMPLE_INPUT of the tests (lines 252-256), parsed.
TEST_SIMPLE_INPUT ==
  [id \in {BROADCASTER, "a", "b", "c", "inv"} |->
     CASE id = BROADCASTER -> [kind |-> "Broadcaster", destinations |-> << "a", "b", "c" >>]
       [] id = "a" -> [kind |-> "FlipFlop", destinations |-> << "b" >>]
       [] id = "b" -> [kind |-> "FlipFlop", destinations |-> << "c" >>]
       [] id = "c" -> [kind |-> "FlipFlop", destinations |-> << "inv" >>]
       [] id = "inv" -> [kind |-> "Conjunction", destinations |-> << "a" >>]]

\* TEST_INPUT of the tests (lines 257-261), parsed.
TEST_INPUT20 ==
  [id \in {BROADCASTER, "a", "inv", "b", "con"} |->
     CASE id = BROADCASTER -> [kind |-> "Broadcaster", destinations |-> << "a" >>]
       [] id = "a" -> [kind |-> "FlipFlop", destinations |-> << "inv", "con" >>]
       [] id = "inv" -> [kind |-> "Conjunction", destinations |-> << "b" >>]
       [] id = "b" -> [kind |-> "FlipFlop", destinations |-> << "con" >>]
       [] id = "con" -> [kind |-> "Conjunction", destinations |-> << "output" >>]]

\* part1 has made the State (lines 214-216).
Init20 ==
  /\ parts \in {StateFrom(n) : n \in Networks \cup {TEST_SIMPLE_INPUT, TEST_INPUT20}}
  /\ pulses = << >>
  /\ low = 0
  /\ high = 0
  /\ part1_low = 0
  /\ part1_high = 0
  /\ pushes = 0
  /\ pc20 = "push"
  /\ ret20 = -1
  /\ sent = << >>
  /\ handled = << >>
  /\ RestIdle20

\* State::push_button (lines 204-210).
push_button(queue20) == Append(queue20, Pulse("Low", BUTTON, BROADCASTER))

\* An iteration of part1's loop begins (line 218), and process_pulses is
\* entered (lines 177-178).
PushButton ==
  /\ pc20 = "push"
  /\ pushes < MaxPushes
  /\ pulses' = push_button(pulses)
  /\ sent' = Append(sent, Pulse("Low", BUTTON, BROADCASTER))
  /\ low' = 0
  /\ high' = 0
  /\ pc20' = "process"
  /\ UNCHANGED <<parts, part1_low, part1_high, pushes, ret20, handled>>
  /\ UNCHANGED Rest20

\* The pulse taken from the back of the queue.
PopBack(queue20) == queue20[Len(queue20)]

\* The pulse process_pulses takes from the queue (line 179).
PopFront(queue20) == Head(queue20)

\* The queue without the pulse taken (line 179).
AfterPop(queue20) == Tail(queue20)

\* One iteration of the while loop of process_pulses (lines 179-187).
ProcessPulse ==
  /\ pc20 = "process"
  /\ pulses # << >>
  /\ Len(handled) < MaxHandled
  /\ LET pulse == PopFront(pulses)
         there == pulse.destination \in DOMAIN parts
         r == process_pulse(parts[pulse.destination], pulse)
     IN /\ low' = IF pulse.state = "Low" THEN low + 1 ELSE low
        /\ high' = IF pulse.state = "High" THEN high + 1 ELSE high
        /\ handled' = Append(handled, pulse)
        /\ IF ~there
             THEN /\ pulses' = AfterPop(pulses)
                  /\ UNCHANGED <<parts, sent, pc20>>
             ELSE IF r.panic
                    THEN /\ pc20' = "panic"
                         /\ pulses' = AfterPop(pulses)
                         /\ UNCHANGED <<parts, sent>>
                    ELSE /\ parts' = [parts EXCEPT ![pulse.destination] = r.part]
                         /\ pulses' = AfterPop(pulses) \o r.out
                         /\ sent' = sent \o r.out
                         /\ UNCHANGED pc20
  /\ UNCHANGED <<part1_low, part1_high, pushes, ret20>>
  /\ UNCHANGED Rest20

\* The queue is empty: process_pulses returns (low, high), and part1 adds
\* them to its sums (lines 188, 219-221).
ProcessReturn ==
  /\ pc20 = "process"
  /\ pulses = << >>
  /\ part1_low' = part1_low + low
  /\ part1_high' = part1_high + high
  /\ pushes' = pushes + 1
  /\ pc20' = "push"
  /\ UNCHANGED <<parts, pulses, low, high, ret20, sent, handled>>
  /\ UNCHANGED Rest20

\* part1's loop is over: it returns low * high (line 223).
Part1Product ==
  /\ pc20 = "push"
  /\ pushes = MaxPushes
  /\ ret20' = part1_low * part1_high
  /\ pc20' = "returned"
  /\ UNCHANGED <<parts, pulses, low, high, part1_low, part1_high, pushes, sent, handled>>
  /\ UNCHANGED Rest20

Next20 == PushButton \/ ProcessPulse \/ ProcessReturn \/ Part1Product

Spec20 == Init20 /\ [][Next20]_vars

\* ------------------------------------------------------------ day10: pipes

\* Positions are <<x, y>>, one more than in the source in each coordinate
\* (the source counts from 0, a sequence from 1).

\* char_to_directions, as the Vec it returns.
char_to_directions(c) ==
  CASE c = "S" -> <<"Up", "Down", "Left", "Right">>
    [] c = "|" -> <<"Up", "Down">>
    [] c = "-" -> <<"Left", "Right">>
    [] c = "L" -> <<"Up", "Right">>
    [] c = "J" -> <<"Up", "Left">>
    [] c = "7" -> <<"Down", "Left">>
    [] c = "F" -> <<"Down", "Right">>
    [] OTHER -> << >>

\* valid_directions.contains(&d)
Contains10(directions, d) == \E i \in DOMAIN directions : directions[i] = d

\* get_size: the length of the first line and the number of lines.
get_size(tiles) == <<Len(tiles[1]), Len(tiles)>>

\* get_start_pos: the first 'S' line by line; << >> stands for the panic.
get_start_pos(tiles) ==
  LET found == {p \in (1..Len(tiles[1])) \X (1..Len(tiles)) : tiles[p[2]][p[1]] = "S"}
  IN IF found = {} THEN << >>
     ELSE CHOOSE p \in found :
            \A o \in found : p[2] < o[2] \/ (p[2] = o[2] /\ p[1] <= o[1])

\* add_to_explore_queue: one push per valid direction whose neighbour is on
\* the grid, with the direction that leads back.
RECURSIVE add_to_explore_queue(_, _, _, _, _, _, _, _)
add_to_explore_queue(q, valid_directions, i, x, y, width, height, dist) ==
  IF i > Len(valid_directions) THEN q
  ELSE LET d == valid_directions[i]
           pushed ==
             CASE d = "Up" ->
                    IF y > 1
                    THEN Append(q, [pos |-> <<x, y - 1>>, dist |-> dist + 1, dir |-> "Down"])
                    ELSE q
               [] d = "Down" ->
                    IF y < height
                    THEN Append(q, [pos |-> <<x, y + 1>>, dist |-> dist + 1, dir |-> "Up"])
                    ELSE q
               [] d = "Left" ->
                    IF x > 1
                    THEN Append(q, [pos |-> <<x - 1, y>>, dist |-> dist + 1, dir |-> "Right"])
                    ELSE q
               [] d = "Right" ->
                    IF x < width
                    THEN Append(q, [pos |-> <<x + 1, y>>, dist |-> dist + 1, dir |-> "Left"])
                    ELSE q
       IN add_to_explore_queue(pushed, valid_directions, i + 1, x, y, width, height, dist)

\* "-FL".contains(c), "|F7".contains(c), "|JL".contains(c)
LeadsRight(c) == c \in {"-", "F", "L"}
LeadsDown(c) == c \in {"|", "F", "7"}
LeadsUp(c) == c \in {"|", "J", "L"}

\* get_start_character
get_start_character(tiles, x, y) ==
  LET has_left == x > 1 /\ LeadsRight(tiles[y][x - 1])
      has_up == y > 1 /\ LeadsDown(tiles[y - 1][x])
      has_down == y < Len(tiles) /\ LeadsUp(tiles[y + 1][x])
  IN IF has_up
     THEN (IF has_down THEN "|" ELSE IF has_left THEN "J" ELSE "L")
     ELSE IF has_down
     THEN (IF has_left THEN "7" ELSE "F")
     ELSE "-"

\* The inner loop of the scan of part2 (lines 159-179) from tile x of the
\* line on: '|' toggles, 'F' and 'L' are pushed, 'J' toggles unless it closes
\* an 'L', '7' toggles unless it closes an 'F'; stack.pop().unwrap() on an
\* empty stack panics.
RECURSIVE scan_line(_, _, _, _, _)
scan_line(line, x, in_boundary, stack, n) ==
  IF x > Len(line) THEN [panic |-> FALSE, count |-> n]
  ELSE LET ch == line[x]
       IN IF ch \in {"J", "7"} /\ stack = << >>
          THEN [panic |-> TRUE, count |-> n]
          ELSE LET popped == stack[Len(stack)]
                   toggled ==
                     CASE ch = "|" -> ~in_boundary
                       [] ch = "J" -> IF popped # "L" THEN ~in_boundary ELSE in_boundary
                       [] ch = "7" -> IF popped # "F" THEN ~in_boundary ELSE in_boundary
                       [] OTHER -> in_boundary
                   kept == CASE ch \in {"F", "L"} -> Append(stack, ch)
                             [] ch \in {"J", "7"} -> SubSeq(stack, 1, Len(stack) - 1)
                             [] OTHER -> stack
               IN scan_line(line, x + 1, toggled, kept,
                            IF toggled /\ ch = "." THEN n + 1 ELSE n)

\* ------------------------------------------------------------ day10: the grids

\* The closed loops of a width x height grid, each as the sequence of its
\* positions from its first position line by line, going right first and
\* ending below the first.
Neighbours10(p, width, height) ==
  {n \in {<<p[1] + 1, p[2]>>, <<p[1] - 1, p[2]>>, <<p[1], p[2] + 1>>, <<p[1], p[2] - 1>>} :
     n[1] \in 1..width /\ n[2] \in 1..height}

RECURSIVE LoopsFrom(_, _, _)
LoopsFrom(path, width, height) ==
  LET first == path[1]
      cur == path[Len(path)]
      on == {path[i] : i \in DOMAIN path}
  IN IF cur = <<first[1], first[2] + 1>> THEN {path}
     ELSE UNION {LoopsFrom(Append(path, n), width, height) :
                   n \in {m \in Neighbours10(cur, width, height) :
                            /\ m \notin on
                            /\ m[2] > first[2] \/ (m[2] = first[2] /\ m[1] > first[1])}}

Loops10(width, height) ==
  UNION {LoopsFrom(<<f, <<f[1] + 1, f[2]>>>>, width, height) :
           f \in (1..(width - 1)) \X (1..(height - 1))}

\* The direction from position p to its neighbour n.
Toward10(p, n) ==
  CASE n[2] < p[2] -> "Up"
    [] n[2] > p[2] -> "Down"
    [] n[1] < p[1] -> "Left"
    [] OTHER -> "Right"

\* The pipe that joins the two directions: char_to_directions read backwards.
PipeOf(a, b) ==
  CHOOSE c \in {"|", "-", "L", "J", "7", "F"} :
    {char_to_directions(c)[1], char_to_directions(c)[2]} = {a, b}

\* The tiles of a loop, with 'S' at its position s and junk everywhere else.
TilesOf(path, s, junk, width, height) ==
  LET n == Len(path)
      at(p) == CHOOSE i \in 1..n : path[i] = p
      pipe(i) == PipeOf(Toward10(path[i], path[IF i = 1 THEN n ELSE i - 1]),
                        Toward10(path[i], path[IF i = n THEN 1 ELSE i + 1]))
  IN [y \in 1..height |->
       [x \in 1..width |->
          IF \E i \in 1..n : path[i] = <<x, y>>
          THEN (IF at(<<x, y>>) = s THEN "S" ELSE pipe(at(<<x, y>>)))
          ELSE junk]]

\* What fills the tiles off the loop.
Junk10 == {".", "|", "-"}

\* The shapes of the generated grids: as many lines as fit a width.
Shapes10 == {<<width, MaxArea10 \div width>> : width \in 2..(MaxArea10 \div 2)}

Grids10 ==
  UNION {UNION {{TilesOf(path, s, junk, d[1], d[2]) : s \in 1..Len(path), junk \in Junk10} :
                  path \in Loops10(d[1], d[2])} : d \in Shapes10}

\* tests::TEST_INPUT_1 and tests::TEST_INPUT_2, line by line.
TEST_INPUT_1 ==
  << <<".", ".", ".", ".", ".">>,
     <<".", "S", "-", "7", ".">>,
     <<".", "|", ".", "|", ".">>,
     <<".", "L", "-", "J", ".">>,
     <<".", ".", ".", ".", ".">> >>
TEST_INPUT_2 ==
  << <<"-", "L", "|", "F", "7">>,
     <<"7", "S", "-", "7", "|">>,
     <<"L", "|", "7", "|", "|">>,
     <<"-", "L", "-", "J", "|">>,
     <<"L", "|", "-", "J", "F">> >>

\* ------------------------------------------------------------ day10: part2

\* part2 up to its loop (lines 132-138).
Init10 ==
  /\ map10 \in Grids10 \cup {TEST_INPUT_1, TEST_INPUT_2}
  /\ pipe_map = [y \in DOMAIN map10 |-> [x \in 1..get_size(map10)[1] |-> "."]]
  /\ queue10 = << [pos |-> get_start_pos(map10), dist |-> 0, dir |-> "Up"] >>
  /\ explored = {}
  /\ row10 = 1
  /\ tile_count = 0
  /\ pc10 = "explore"
  /\ ret10 = << >>
  /\ RestIdle10

\* One turn of the while loop of part2 (lines 139-150).
Explore10 ==
  /\ pc10 = "explore"
  /\ queue10 # << >>
  /\ LET e == Head(queue10)
         x == e.pos[1]
         y == e.pos[2]
         valid_directions == char_to_directions(map10[y][x])
     IN IF e.pos \in explored \/ ~Contains10(valid_directions, e.dir)
        THEN /\ queue10' = Tail(queue10)
             /\ UNCHANGED <<pipe_map, explored>>
        ELSE /\ pipe_map' = [pipe_map EXCEPT ![y][x] = map10[y][x]]
             /\ explored' = explored \cup {e.pos}
             /\ queue10' = add_to_explore_queue(Tail(queue10), valid_directions, 1, x, y,
                                                get_size(map10)[1], get_size(map10)[2],
                                                e.dist)
  /\ UNCHANGED <<map10, row10, tile_count, pc10, ret10>>
  /\ UNCHANGED Rest10

\* The end of the while loop and line 151: the start tile gets its pipe.
StartCharacter10 ==
  /\ pc10 = "explore"
  /\ queue10 = << >>
  /\ LET s == get_start_pos(map10)
     IN pipe_map' = [pipe_map EXCEPT ![s[2]][s[1]] = get_start_character(pipe_map, s[1], s[2])]
  /\ pc10' = "scan"
  /\ UNCHANGED <<map10, queue10, explored, row10, tile_count, ret10>>
  /\ UNCHANGED Rest10

\* One line of the scan (lines 156-180).
ScanLine10 ==
  /\ pc10 = "scan"
  /\ row10 <= Len(pipe_map)
  /\ LET r == scan_line(pipe_map[row10], 1, FALSE, << >>, tile_count)
     IN IF r.panic
        THEN /\ pc10' = "panic"
             /\ UNCHANGED <<row10, tile_count>>
        ELSE /\ tile_count' = r.count
             /\ row10' = row10 + 1
             /\ UNCHANGED pc10
  /\ UNCHANGED <<map10, pipe_map, queue10, explored, ret10>>
  /\ UNCHANGED Rest10

\* Line 181: part2 returns tile_count.
Return10 ==
  /\ pc10 = "scan"
  /\ row10 > Len(pipe_map)
  /\ ret10' = <<tile_count>>
  /\ pc10' = "returned"
  /\ UNCHANGED <<map10, pipe_map, queue10, explored, row10, tile_count>>
  /\ UNCHANGED Rest10

Next10 == Explore10 \/ StartCharacter10 \/ ScanLine10 \/ Return10

Spec10 == Init10 /\ [][Next10]_vars

\* ------------------------------------------------------------ day18: lines and ranges

\* Instruction
Instruction(direction, steps) == [direction |-> direction, steps |-> steps]

\* Line::default()
LineDefault == [start_x |-> 0, start_y |-> 0, end_x |-> 0, end_y |-> 0]

\* &Line + &Instruction
LineAdd(line, rhs) ==
  LET start_x == line.end_x
      start_y == line.end_y
  IN CASE rhs.direction = "Up" ->
            [start_x |-> start_x, start_y |-> start_y,
             end_x |-> start_x, end_y |-> start_y - rhs.steps]
       [] rhs.direction = "Down" ->
            [start_x |-> start_x, start_y |-> start_y,
             end_x |-> start_x, end_y |-> start_y + rhs.steps]
       [] rhs.direction = "Left" ->
            [start_x |-> start_x, start_y |-> start_y,
             end_x |-> start_x - rhs.steps, end_y |-> start_y]
       [] rhs.direction = "Right" ->
            [start_x |-> start_x, start_y |-> start_y,
             end_x |-> start_x + rhs.steps, end_y |-> start_y]

\* Line::contains_y, Line::contains_x, Line::contains_point
contains_y(line, y) ==
  (line.start_y <= y /\ y <= line.end_y) \/ (line.end_y <= y /\ y <= line.start_y)

contains_x(line, x) ==
  (line.start_x <= x /\ x <= line.end_x) \/ (line.end_x <= x /\ x <= line.start_x)

contains_point(line, x, y) == contains_x(line, x) /\ contains_y(line, y)

Min18(a, b) == IF a <= b THEN a ELSE b
Max18(a, b) == IF a >= b THEN a ELSE b

\* Range::new
RangeNew(start, end) == [start |-> start, end |-> end]

\* Range::overlaps
overlaps(self, other) ==
  \/ (self.start <= other.start /\ other.start <= self.end)
  \/ (self.start <= other.end /\ other.end <= self.end)
  \/ (other.start <= self.start /\ self.start <= other.end)
  \/ (other.start <= self.end /\ self.end <= other.end)

\* The derived Ord of Range: by start, then by end.
RangeLe(a, b) == a.start < b.start \/ (a.start = b.start /\ a.end <= b.end)

\* ranges.sort()
RECURSIVE SortRanges(_)
SortRanges(rngs) ==
  IF rngs = << >> THEN << >>
  ELSE LET sorted == SortRanges(Tail(rngs))
           r == Head(rngs)
           k == Cardinality({i \in DOMAIN sorted : ~RangeLe(r, sorted[i])})
       IN SubSeq(sorted, 1, k) \o <<r>> \o SubSeq(sorted, k + 1, Len(sorted))

\* The loop of collapse_ranges (lines 153-163) from range i on.
RECURSIVE CollapseFrom(_, _, _, _)
CollapseFrom(rngs, i, prev, collapsed) ==
  IF i > Len(rngs) THEN Append(collapsed, prev)
  ELSE IF overlaps(prev, rngs[i])
       THEN CollapseFrom(rngs, i + 1,
                         RangeNew(Min18(rngs[i].start, prev.start),
                                  Max18(rngs[i].end, prev.end)),
                         collapsed)
       ELSE CollapseFrom(rngs, i + 1, rngs[i], Append(collapsed, prev))

\* collapse_ranges
collapse_ranges(rngs) ==
  IF rngs = << >> THEN << >>
  ELSE LET sorted == SortRanges(rngs)
       IN CollapseFrom(sorted, 2, sorted[1], << >>)

\* convert_to_lines
RECURSIVE ConvertFrom(_, _, _, _)
ConvertFrom(ins, i, prev_line, lines) ==
  IF i > Len(ins) THEN lines
  ELSE LET line == LineAdd(prev_line, ins[i])
       IN ConvertFrom(ins, i + 1, line, Append(lines, line))

convert_to_lines(ins) == ConvertFrom(ins, 1, LineDefault, << >>)

\* .min().unwrap() and .max().unwrap() of a non-empty iterator
MinOf(values) == CHOOSE v \in values : \A o \in values : v <= o
MaxOf(values) == CHOOSE v \in values : \A o \in values : v >= o

\* get_bounds
get_bounds(lines) ==
  [start_x |-> MinOf({Min18(lines[i].start_x, lines[i].end_x) : i \in DOMAIN lines}),
   start_y |-> MinOf({Min18(lines[i].start_y, lines[i].end_y) : i \in DOMAIN lines}),
   end_x |-> MaxOf({Max18(lines[i].start_x, lines[i].end_x) : i \in DOMAIN lines}),
   end_y |-> MaxOf({Max18(lines[i].start_y, lines[i].end_y) : i \in DOMAIN lines})]

\* lines.iter().filter(|line| line.contains_y(row)), in order
RECURSIVE LinesAt(_, _)
LinesAt(lines, row) ==
  IF lines = << >> THEN << >>
  ELSE IF contains_y(Head(lines), row)
       THEN <<Head(lines)>> \o LinesAt(Tail(lines), row)
       ELSE LinesAt(Tail(lines), row)

\* The ranges get_ranges_for_y generates for one row before collapsing them.
GeneratedRanges(lines, row) ==
  LET at == LinesAt(lines, row)
  IN [i \in DOMAIN at |-> RangeNew(Min18(at[i].start_x, at[i].end_x),
                                   Max18(at[i].start_x, at[i].end_x))]

\* get_ranges_for_y: the collapsed ranges of rows y - 1, y and y + 1.
get_ranges_for_y(lines, y) ==
  << collapse_ranges(GeneratedRanges(lines, y - 1)),
     collapse_ranges(GeneratedRanges(lines, y)),
     collapse_ranges(GeneratedRanges(lines, y + 1)) >>

\* get_shape_from_lines, as an Option<EntranceShape>
get_shape_from_lines(lines, x, y) ==
  IF ~\E i \in DOMAIN lines : contains_point(lines[i], x, y) THEN << >>
  ELSE IF \E i \in DOMAIN lines : contains_point(lines[i], x, y - 1)
       THEN (IF \E i \in DOMAIN lines : contains_point(lines[i], x, y + 1)
             THEN <<"Vert">>
             ELSE <<"Up">>)
       ELSE IF \E i \in DOMAIN lines : contains_point(lines[i], x, y + 1)
            THEN <<"Down">>
            ELSE << >>

\* The loop of fill_in_ranges with every range changing sides, whatever the
\* shapes of its two ends.
RECURSIVE FillFromAllToggle(_, _, _, _, _, _, _)
FillFromAllToggle(lines, row, y, i, filled_in, in_shape, prev_range) ==
  IF i > Len(row) THEN [panic |-> FALSE, filled_in |-> filled_in]
  ELSE LET range == row[i]
           between == IF prev_range # << >> /\ in_shape
                      THEN range.start - prev_range[1].end - 1
                      ELSE 0
       IN FillFromAllToggle(lines, row, y, i + 1,
                            filled_in + between + (range.end - range.start + 1),
                            ~in_shape, <<range>>)

\* The loop of fill_in_ranges (lines 255-292) from range i of the row on.
RECURSIVE FillFrom(_, _, _, _, _, _, _)
FillFrom(lines, row, y, i, filled_in, in_shape, prev_range) ==
  IF i > Len(row) THEN [panic |-> FALSE, filled_in |-> filled_in]
  ELSE LET range == row[i]
           between == IF prev_range # << >> /\ in_shape
                      THEN range.start - prev_range[1].end - 1
                      ELSE 0
           entrance_shape == get_shape_from_lines(lines, range.start, y)
           exit_shape == get_shape_from_lines(lines, range.end, y)
           panics == entrance_shape \in {<<"Down">>, <<"Up">>} /\ exit_shape = <<"Vert">>
           toggles ==
             CASE entrance_shape = <<"Down">> -> exit_shape = <<"Up">>
               [] entrance_shape = <<"Up">> -> exit_shape = <<"Down">>
               [] entrance_shape = << >> -> exit_shape = <<"Vert">>
               [] entrance_shape = <<"Vert">> -> TRUE
       IN IF panics THEN [panic |-> TRUE, filled_in |-> filled_in + between]
          ELSE FillFrom(lines, row, y, i + 1,
                        filled_in + between + (range.end - range.start + 1),
                        IF toggles THEN ~in_shape ELSE in_shape, <<range>>)

\* fill_in_ranges: the lines are narrowed to those of row y (lines 250-254),
\* the ranges walked are ranges[1], those of row y.
fill_in_ranges(lines, rngs, y) ==
  FillFrom(LinesAt(lines, y), rngs[2], y, 1, 0, FALSE, << >>)

\* ------------------------------------------------------------ day18: the instructions

\* The directions of the unit steps around a closed loop of positions, from
\* its position k on, forwards or backwards.
UnitSteps(path, k, forwards) ==
  LET n == Len(path)
      at(j) == path[((IF forwards THEN k + j ELSE k - j + n * 2) % n) + 1]
  IN [j \in 1..n |-> Toward10(at(j - 1), at(j))]

\* One instruction per unit step.
StepByStep(steps, scale) == [j \in DOMAIN steps |-> Instruction(steps[j], scale)]

\* One instruction per run of unit steps in one direction.
RECURSIVE RunByRun(_, _, _)
RunByRun(steps, scale, ins) ==
  IF steps = << >> THEN ins
  ELSE IF ins # << >> /\ ins[Len(ins)].direction = Head(steps)
       THEN RunByRun(Tail(steps), scale,
                     [ins EXCEPT ![Len(ins)].steps = @ + scale])
       ELSE RunByRun(Tail(steps), scale, Append(ins, Instruction(Head(steps), scale)))

\* The closed instruction lists without crossings that are generated: every
\* closed loop in a box of at most MaxArea18 corners, begun at any of its
\* positions, either way round, a unit standing for up to MaxScale18 steps.
Shapes18 == {<<width, MaxArea18 \div width>> : width \in 2..(MaxArea18 \div 2)}

Instructions18 ==
  UNION {UNION {{RunByRun(UnitSteps(path, k, f), scale, << >>),
                 StepByStep(UnitSteps(path, k, f), scale)} :
                  k \in 1..Len(path), f \in BOOLEAN, scale \in 1..MaxScale18} :
           path \in UNION {Loops10(d[1], d[2]) : d \in Shapes18}}

\* tests::TEST_INPUT, as parse_instructions reads it.
TEST_INPUT18 ==
  << Instruction("Right", 6), Instruction("Down", 5), Instruction("Left", 2),
     Instruction("Down", 2), Instruction("Right", 2), Instruction("Down", 2),
     Instruction("Left", 5), Instruction("Up", 2), Instruction("Left", 1),
     Instruction("Up", 2), Instruction("Right", 2), Instruction("Up", 3),
     Instruction("Left", 2), Instruction("Up", 2) >>

\* ------------------------------------------------------------ day18: part1

\* part1 up to its loop (lines 297-300); part2 differs only in how the
\* instructions are parsed (line 309).
Init18 ==
  /\ instructions \in Instructions18 \cup {TEST_INPUT18}
  /\ lines18 = convert_to_lines(instructions)
  /\ bounds18 = get_bounds(lines18)
  /\ y18 = bounds18.start_y
  /\ total18 = 0
  /\ pc18 = "rows"
  /\ ret18 = << >>
  /\ RestIdle18

\* One turn of the loop over the rows (lines 301-304).
FillRow18 ==
  /\ pc18 = "rows"
  /\ y18 <= bounds18.end_y
  /\ LET rngs == get_ranges_for_y(lines18, y18)
         r == fill_in_ranges(lines18, rngs, y18)
     IN IF r.panic
        THEN /\ pc18' = "panic"
             /\ UNCHANGED <<y18, total18>>
        ELSE /\ total18' = total18 + r.filled_in
             /\ y18' = y18 + 1
             /\ UNCHANGED pc18
  /\ UNCHANGED <<instructions, lines18, bounds18, ret18>>
  /\ UNCHANGED Rest18

\* Line 305: part1 returns total.
Return18 ==
  /\ pc18 = "rows"
  /\ y18 > bounds18.end_y
  /\ ret18' = <<total18>>
  /\ pc18' = "returned"
  /\ UNCHANGED <<instructions, lines18, bounds18, y18, total18>>
  /\ UNCHANGED Rest18

Next18 == FillRow18 \/ Return18

Spec18 == Init18 /\ [][Next18]_vars

\* ------------------------------------------------------------ day12: springs

Spring == {"Unknown", "Damaged", "Operational"}

\* Spring::from
SpringFrom(c) ==
  CASE c = "?" -> "Unknown"
    [] c = "#" -> "Damaged"
    [] OTHER -> "Operational"

\* Line
Line12(springs, counts) == [springs |-> springs, counts |-> counts]

\* What a call of get_counts_recursive hands back: the HashMap as it leaves
\* it, its value, whether it panicked, and how often the HashMap answered.
Counted(m, value) == [m EXCEPT !.result = value]

\* get_counts_recursive (lines 35-125). target_counts[0] on an empty Vec
\* panics; the early returns of lines 48, 50 and 54 insert nothing.
RECURSIVE get_counts_recursive(_, _, _)
get_counts_recursive(m, line, prev) ==
  LET key == <<line, prev>>
      springs == line.springs
      target_counts == line.counts
  IN IF m.panic THEN m
     ELSE IF key \in DOMAIN m.map
     THEN [m EXCEPT !.result = m.map[key], !.hits = @ + 1]
     ELSE IF springs = << >>
             /\ (target_counts = << >> \/ (Len(target_counts) = 1 /\ target_counts[1] = 0))
     THEN Counted(m, 1)
     ELSE IF springs = << >>
     THEN Counted(m, 0)
     ELSE IF target_counts = << >> /\ \E i \in DOMAIN springs : springs[i] = "Damaged"
     THEN Counted(m, 0)
     ELSE
       LET r ==
             CASE prev = "Operational" /\ springs[1] = "Operational" ->
                    get_counts_recursive(m, Line12(Tail(springs), target_counts),
                                         "Operational")
               [] prev = "Damaged" /\ springs[1] = "Operational" ->
                    IF target_counts = << >> THEN [m EXCEPT !.panic = TRUE]
                    ELSE IF target_counts[1] = 0
                    THEN get_counts_recursive(
                           m, Line12(Tail(springs), Tail(target_counts)), "Operational")
                    ELSE Counted(m, 0)
               [] springs[1] = "Damaged" ->
                    IF target_counts[1] = 0 THEN Counted(m, 0)
                    ELSE get_counts_recursive(
                           m, Line12(Tail(springs),
                                     <<target_counts[1] - 1>> \o Tail(target_counts)),
                           "Damaged")
               [] springs[1] = "Unknown" ->
                    LET damaged == get_counts_recursive(
                                     m, Line12(<<"Damaged">> \o Tail(springs), target_counts),
                                     prev)
                        operational == get_counts_recursive(
                                         damaged,
                                         Line12(<<"Operational">> \o Tail(springs),
                                                target_counts),
                                         prev)
                    IN [operational EXCEPT !.result = damaged.result + operational.result]
               [] OTHER -> [m EXCEPT !.panic = TRUE]
       IN IF r.panic THEN r
          ELSE [r EXCEPT !.map = [k \in DOMAIN r.map \cup {key} |->
                                    IF k = key THEN r.result ELSE r.map[k]]]

\* HashMap::new()
HashMapNew == [map |-> << >>, result |-> 0, panic |-> FALSE, hits |-> 0]

\* Line::count_line_variants
count_line_variants(line) == get_counts_recursive(HashMapNew, line, "Operational")

\* The generated lines: every row of at most MaxSprings springs with every
\* list of at most MaxGroups groups of at most MaxGroup springs (0 included,
\* which parses as well as any number).
Rows12 == UNION {[1..n -> Spring] : n \in 0..MaxSprings}
Groups12 == UNION {[1..n -> 0..MaxGroup] : n \in 0..MaxGroups}

\* Lines of tests::test_part1, as Line::from reads them.
RECURSIVE SpringsFrom(_)
SpringsFrom(chars) ==
  IF chars = << >> THEN << >> ELSE <<SpringFrom(Head(chars))>> \o SpringsFrom(Tail(chars))

TestLines12 ==
  { Line12(SpringsFrom(<<"?", "?", "?">>), <<2, 1>>),
    Line12(SpringsFrom(<<"?", "?", "?", "?">>), <<2, 1>>),
    Line12(SpringsFrom(<<"?", "?", "?", ".", "#", "#", "#">>), <<1, 1, 3>>),
    Line12(SpringsFrom(<<"?", "#", "#", "#", "?", "?", "?", "?", "?", "?", "?", "?">>),
           <<3, 2, 1>>) }

\* ------------------------------------------------------------ day12: count_line_variants

Init12 ==
  /\ line12 \in {Line12(r, g) : r \in Rows12, g \in Groups12} \cup TestLines12
  /\ memo12 = << >>
  /\ hits12 = 0
  /\ pc12 = "call"
  /\ ret12 = << >>
  /\ RestIdle12

\* count_line_variants is called on the line and returns (lines 128-130).
CountLineVariants ==
  /\ pc12 = "call"
  /\ LET r == count_line_variants(line12)
     IN /\ memo12' = r.map
        /\ hits12' = r.hits
        /\ IF r.panic
           THEN pc12' = "panic" /\ UNCHANGED ret12
           ELSE pc12' = "returned" /\ ret12' = <<r.result>>
  /\ UNCHANGED line12
  /\ UNCHANGED Rest12

Next12 == CountLineVariants

Spec12 == Init12 /\ [][Next12]_vars

\* ------------------------------------------------------------ day8: usize

\* A usize is written as its bytes, the least significant first, with no
\* zero byte at the end: 0 is << >>, 256 is <<0, 1>>. The operations below
\* are those of the natural numbers; a result that needs more than
\* UsizeBytes bytes does not fit a usize.
RECURSIVE Norm(_)
Norm(d) ==
  IF d = << >> THEN << >>
  ELSE IF d[Len(d)] = 0 THEN Norm(SubSeq(d, 1, Len(d) - 1))
  ELSE d

RECURSIVE BigFrom(_)
BigFrom(n) == IF n = 0 THEN << >> ELSE <<n % 256>> \o BigFrom(n \div 256)

RECURSIVE BigAddC(_, _, _)
BigAddC(a, b, carry) ==
  IF a = << >> /\ b = << >> THEN (IF carry = 0 THEN << >> ELSE <<carry>>)
  ELSE LET x == (IF a = << >> THEN 0 ELSE a[1]) + (IF b = << >> THEN 0 ELSE b[1]) + carry
       IN <<x % 256>> \o BigAddC(IF a = << >> THEN a ELSE Tail(a),
                                 IF b = << >> THEN b ELSE Tail(b), x \div 256)

BigAdd(a, b) == BigAddC(a, b, 0)

\* a - b where a >= b.
RECURSIVE BigSubB(_, _, _)
BigSubB(a, b, borrow) ==
  IF a = << >> THEN << >>
  ELSE LET x == a[1] - (IF b = << >> THEN 0 ELSE b[1]) - borrow
       IN <<(x + 256) % 256>> \o BigSubB(Tail(a), IF b = << >> THEN b ELSE Tail(b),
                                         IF x < 0 THEN 1 ELSE 0)

BigSub(a, b) == Norm(BigSubB(a, b, 0))

RECURSIVE BigLess(_, _)
BigLess(a, b) ==
  IF Len(a) # Len(b) THEN Len(a) < Len(b)
  ELSE IF a = << >> THEN FALSE
  ELSE IF a[Len(a)] # b[Len(b)] THEN a[Len(a)] < b[Len(b)]
  ELSE BigLess(SubSeq(a, 1, Len(a) - 1), SubSeq(b, 1, Len(b) - 1))

\* a & 1
BigOdd(a) == a # << >> /\ a[1] % 2 = 1

\* a >> 1
BigHalf(a) ==
  Norm([i \in DOMAIN a |->
          (a[i] \div 2) + (IF i < Len(a) THEN (a[i + 1] % 2) * 128 ELSE 0)])

BigDouble(a) == BigAdd(a, a)

RECURSIVE BigMulByte(_, _, _)
BigMulByte(a, byte, carry) ==
  IF a = << >> THEN (IF carry = 0 THEN << >> ELSE <<carry>>)
  ELSE LET x == a[1] * byte + carry
       IN <<x % 256>> \o BigMulByte(Tail(a), byte, x \div 256)

RECURSIVE BigMul(_, _)
BigMul(a, b) ==
  IF a = << >> \/ b = << >> THEN << >>
  ELSE Norm(BigAdd(BigMulByte(a, b[1], 0), <<0>> \o BigMul(a, Tail(b))))

\* The greatest byte q in lo..hi with q * d <= r.
RECURSIVE ByteQuotient(_, _, _, _)
ByteQuotient(r, d, lo, hi) ==
  IF lo = hi THEN lo
  ELSE LET mid == (lo + hi + 1) \div 2
       IN IF BigLess(r, BigMulByte(d, mid, 0)) THEN ByteQuotient(r, d, lo, mid - 1)
          ELSE ByteQuotient(r, d, mid, hi)

\* Quotient and remainder of n by d, d not 0: long division, a byte of the
\* quotient at a time.
RECURSIVE BigDivMod(_, _)
BigDivMod(n, d) ==
  IF BigLess(n, d) THEN [q |-> << >>, r |-> n]
  ELSE LET h == BigDivMod(n, <<0>> \o d)
           byte == ByteQuotient(h.r, d, 0, 255)
       IN [q |-> Norm(<<byte>> \o h.q), r |-> BigSub(h.r, BigMulByte(d, byte, 0))]

\* Whether a number fits a usize, and what is left of it in a usize.
Fits(a) == Len(a) <= UsizeBytes
Wrap(a) == IF Fits(a) THEN a ELSE Norm(SubSeq(a, 1, UsizeBytes))

\* ------------------------------------------------------------ day8: gcd, lcm_all

\* One call of gcd (lines 69-81): the arm of the match that applies, the
\* arms in their order. Arms 1 and 2 return; the others call gcd again,
\* and arm 4 shifts what comes back.
gcd(a, b) ==
  LET Returns(v) == [returns |-> TRUE, value |-> v, x |-> << >>, y |-> << >>, shift |-> FALSE]
      Calls(m, n, s) == [returns |-> FALSE, value |-> << >>, x |-> m, y |-> n, shift |-> s]
  IN IF a = b THEN Returns(b)
     ELSE IF a = << >> THEN Returns(b)
     ELSE IF b = << >> THEN Returns(a)
     ELSE IF ~BigOdd(a) /\ BigOdd(b) THEN Calls(BigHalf(a), b, FALSE)
     ELSE IF BigOdd(a) /\ ~BigOdd(b) THEN Calls(BigHalf(b), a, FALSE)
     ELSE IF ~BigOdd(a) /\ ~BigOdd(b) THEN Calls(BigHalf(a), BigHalf(b), TRUE)
     ELSE IF BigLess(b, a) THEN Calls(BigHalf(BigSub(a, b)), b, FALSE)
     ELSE Calls(BigHalf(BigSub(b, a)), a, FALSE)

\* x << 1: the bit shifted out is dropped.
ShiftLeft(v) == Wrap(BigDouble(v))

\* ------------------------------------------------------------ day8: part2

\* str::ends_with on a node's name, the name written as its characters.
EndsWith(name, c) == name # << >> /\ name[Len(name)] = c

\* Input::get_cycle_length (lines 51-66): the steps from start to the first
\* node whose name ends with 'Z'. A node the map lacks, or an empty
\* instruction list, panics. Position and node repeat after
\* Len(instrs) * (number of nodes) steps: a walk that long never ends.
RECURSIVE Walk(_, _, _, _)
Walk(instrs, nodes, current, steps) ==
  IF EndsWith(current, "Z") THEN [kind |-> "steps", steps |-> steps]
  ELSE IF instrs = << >> \/ current \notin DOMAIN nodes THEN [kind |-> "panic", steps |-> steps]
  ELSE IF steps > Len(instrs) * Cardinality(DOMAIN nodes) THEN [kind |-> "never", steps |-> steps]
  ELSE LET cur_char == instrs[(steps % Len(instrs)) + 1]
           cur_pair == nodes[current]
       IN Walk(instrs, nodes, IF cur_char THEN cur_pair.left ELSE cur_pair.right, steps + 1)

get_cycle_length(instrs, nodes, start) == Walk(instrs, nodes, start, 0)

\* The orders in which HashMap::keys may give the keys that end with 'A'.
KeyOrders(nodes) ==
  LET starts == {k \in DOMAIN nodes : EndsWith(k, "A")}
  IN {o \in [1..Cardinality(starts) -> starts] :
        \A i, j \in DOMAIN o : o[i] = o[j] => i = j}

\* part2 up to its call of lcm_all (lines 97-103), the keys in the given
\* order: the lengths, unless a get_cycle_length panics or never returns.
lengths_of(instrs, nodes, order) ==
  LET walks == [i \in DOMAIN order |-> get_cycle_length(instrs, nodes, order[i])]
  IN [kind |-> IF \E i \in DOMAIN walks : /\ walks[i].kind = "panic"
                                          /\ \A j \in 1..(i - 1) : walks[j].kind = "steps"
               THEN "panic"
               ELSE IF \E i \in DOMAIN walks : walks[i].kind # "steps" THEN "never"
               ELSE "lengths",
      lengths |-> [i \in DOMAIN order |-> BigFrom(walks[i].steps)]]

\* The generated inputs. Numbers: the small ones, and 4294967296 and
\* 6442450944, whose products do not fit a usize.
TwoTo32 == <<0, 0, 0, 0, 1>>
Large8 == {TwoTo32, <<0, 0, 0, 128, 1>>}
Args8 == {BigFrom(n) : n \in 0..MaxArg} \cup Large8
Lengths8 == {BigFrom(n) : n \in 1..MaxStep} \cup Large8
Slices8 == UNION {[1..n -> Lengths8] : n \in 1..MaxList}

Names8 == {<<"1", "1", "A">>, <<"1", "1", "Z">>, <<"2", "2", "A">>}
Pairs8 == [left : Names8, right : Names8]
Instructions8 == UNION {[1..n -> BOOLEAN] : n \in 1..MaxInstructions}

\* The input of tests::test_part2.
TEST_PART2_INSTRUCTIONS == <<TRUE, FALSE>>
TEST_PART2_MAP ==
  LET Pair(l, r) == [left |-> l, right |-> r]
      AAA == <<"A", "A", "A">>
      AAB == <<"A", "A", "B">>
      AAZ == <<"A", "A", "Z">>
      BBA == <<"B", "B", "A">>
      BBB == <<"B", "B", "B">>
      BBC == <<"B", "B", "C">>
      BBZ == <<"B", "B", "Z">>
      XXX == <<"X", "X", "X">>
  IN [k \in {AAA, AAB, AAZ, BBA, BBB, BBC, BBZ, XXX} |->
        CASE k = AAA -> Pair(AAB, XXX)
          [] k = AAB -> Pair(XXX, AAZ)
          [] k = AAZ -> Pair(AAB, XXX)
          [] k = BBA -> Pair(BBB, XXX)
          [] k = BBB -> Pair(BBC, BBC)
          [] k = BBC -> Pair(BBZ, BBZ)
          [] k = BBZ -> Pair(BBB, BBB)
          [] k = XXX -> Pair(XXX, XXX)]

\* ------------------------------------------------------------ day8: the calls

Init8 ==
  /\ build8 \in {"debug", "release"}
  /\ \/ /\ call8 = "gcd"
        /\ a8 \in Args8
        /\ b8 \in Args8
        /\ list8 = << >> /\ instructions8 = << >> /\ map8 = << >>
     \/ /\ call8 = "lcm_all"
        /\ list8 \in Slices8
        /\ a8 = << >> /\ b8 = << >> /\ instructions8 = << >> /\ map8 = << >>
     \/ /\ call8 = "part2"
        /\ \/ instructions8 \in Instructions8 /\ map8 \in [Names8 -> Pairs8]
           \/ instructions8 = TEST_PART2_INSTRUCTIONS /\ map8 = TEST_PART2_MAP
        /\ a8 = << >> /\ b8 = << >> /\ list8 = << >>
  /\ at8 = 0 /\ acc8 = << >> /\ product8 = << >>
  /\ x8 = << >> /\ y8 = << >> /\ shifts8 = << >> /\ got8 = << >>
  /\ calls8 = 0
  /\ pc8 = "call"
  /\ ret8 = << >>
  /\ RestIdle8

\* gcd(a, b) is called from outside.
Gcd8 ==
  /\ pc8 = "call" /\ call8 = "gcd"
  /\ x8' = a8 /\ y8' = b8
  /\ pc8' = "gcd"
  /\ UNCHANGED <<call8, build8, a8, b8, list8, instructions8, map8, at8, acc8, product8,
                 shifts8, got8, calls8, ret8>>
  /\ UNCHANGED Rest8

\* The innermost call of gcd matches: it returns a value, or calls gcd and
\* waits.
GcdMatch8 ==
  /\ pc8 = "gcd"
  /\ LET m == gcd(x8, y8)
     IN IF m.returns
        THEN /\ got8' = <<m.value>>
             /\ pc8' = "unwind"
             /\ UNCHANGED <<x8, y8, shifts8>>
        ELSE /\ x8' = m.x /\ y8' = m.y
             /\ shifts8' = Append(shifts8, m.shift)
             /\ UNCHANGED <<got8, pc8>>
  /\ calls8' = calls8 + 1
  /\ UNCHANGED <<call8, build8, a8, b8, list8, instructions8, map8, at8, acc8, product8, ret8>>
  /\ UNCHANGED Rest8

\* A waiting call of gcd gets its value and returns it, shifted in arm 4.
GcdUnwind8 ==
  /\ pc8 = "unwind" /\ shifts8 # << >>
  /\ got8' = IF shifts8[Len(shifts8)] THEN <<ShiftLeft(got8[1])>> ELSE got8
  /\ shifts8' = SubSeq(shifts8, 1, Len(shifts8) - 1)
  /\ UNCHANGED <<call8, build8, a8, b8, list8, instructions8, map8, at8, acc8, product8,
                 x8, y8, calls8, pc8, ret8>>
  /\ UNCHANGED Rest8

\* The outermost call of gcd returns to the outside.
GcdReturn8 ==
  /\ pc8 = "unwind" /\ shifts8 = << >> /\ call8 = "gcd"
  /\ ret8' = got8
  /\ pc8' = "returned"
  /\ UNCHANGED <<call8, build8, a8, b8, list8, instructions8, map8, at8, acc8, product8,
                 x8, y8, shifts8, got8, calls8>>
  /\ UNCHANGED Rest8

\* part2 up to lcm_all: the keys come in some order, and the lengths are
\* collected, unless a get_cycle_length panics or never returns.
Part2_8 ==
  /\ pc8 = "call" /\ call8 = "part2"
  /\ \E order \in KeyOrders(map8) :
       LET r == lengths_of(instructions8, map8, order)
       IN /\ list8' = r.lengths
          /\ pc8' = r.kind
  /\ UNCHANGED <<call8, build8, a8, b8, instructions8, map8, at8, acc8, product8,
                 x8, y8, shifts8, got8, calls8, ret8>>
  /\ UNCHANGED Rest8

\* lcm_all(&input) is called, from outside or by part2 (lines 83-88): the
\* frames go down to the slice of one element, which returns it; input[0]
\* of an empty slice panics.
LcmAll8 ==
  /\ \/ pc8 = "call" /\ call8 = "lcm_all"
     \/ pc8 = "lengths"
  /\ IF list8 = << >>
     THEN pc8' = "panic" /\ UNCHANGED <<at8, acc8, ret8>>
     ELSE /\ acc8' = list8[Len(list8)]
          /\ at8' = Len(list8) - 1
          /\ IF Len(list8) = 1
             THEN pc8' = "returned" /\ ret8' = <<list8[1]>>
             ELSE pc8' = "lcm" /\ UNCHANGED ret8
  /\ UNCHANGED <<call8, build8, a8, b8, list8, instructions8, map8, product8,
                 x8, y8, shifts8, got8, calls8>>
  /\ UNCHANGED Rest8

\* A frame of lcm_all has its b and forms a * b (line 89): a product that
\* does not fit a usize panics in a debug build and wraps in a release
\* build. Then it calls gcd(a, b).
LcmMultiply8 ==
  /\ pc8 = "lcm"
  /\ LET a == list8[at8]
         product == BigMul(a, acc8)
     IN IF ~Fits(product) /\ build8 = "debug"
        THEN /\ pc8' = "panic"
             /\ UNCHANGED <<product8, x8, y8, calls8>>
        ELSE /\ product8' = Wrap(product)
             /\ x8' = a /\ y8' = acc8
             /\ calls8' = 0
             /\ pc8' = "gcd"
  /\ UNCHANGED <<call8, build8, a8, b8, list8, instructions8, map8, at8, acc8,
                 shifts8, got8, ret8>>
  /\ UNCHANGED Rest8

\* gcd(a, b) returns to the frame of lcm_all, which divides and returns
\* (line 89): to the frame above, or to the outside. A divisor of 0 panics.
LcmDivide8 ==
  /\ pc8 = "unwind" /\ shifts8 = << >> /\ call8 # "gcd"
  /\ IF got8[1] = << >>
     THEN pc8' = "panic" /\ UNCHANGED <<acc8, at8, ret8>>
     ELSE LET quotient == BigDivMod(product8, got8[1]).q
          IN /\ acc8' = quotient
             /\ at8' = at8 - 1
             /\ IF at8 = 1
                THEN pc8' = "returned" /\ ret8' = <<quotient>>
                ELSE pc8' = "lcm" /\ UNCHANGED ret8
  /\ UNCHANGED <<call8, build8, a8, b8, list8, instructions8, map8, product8,
                 x8, y8, shifts8, got8, calls8>>
  /\ UNCHANGED Rest8

Next8 ==
  \/ Gcd8 \/ GcdMatch8 \/ GcdUnwind8 \/ GcdReturn8
  \/ Part2_8 \/ LcmAll8 \/ LcmMultiply8 \/ LcmDivide8

Spec8 == Init8 /\ [][Next8]_vars

\* ------------------------------------------------------------ day19: conditions and workflows

\* Condition, Stage, Rule, Node.
Condition(field, operator, value) == [field |-> field, operator |-> operator, value |-> value]
StageAccept == [kind |-> "Accept", idx |-> 0]
StageReject == [kind |-> "Reject", idx |-> 0]
StageWorkflow(idx) == [kind |-> "Workflow", idx |-> idx]
Rule19(condition, target) == [condition |-> condition, target |-> target]
Node19(workflow_idx, rule_idx) == [workflow_idx |-> workflow_idx, rule_idx |-> rule_idx]

\* The part's value in a field (lines 74-79).
FieldValue(field, part) ==
  CASE field = "X" -> part.x
    [] field = "M" -> part.m
    [] field = "A" -> part.a
    [] field = "S" -> part.s

\* Condition::matches
matches(c, part) ==
  IF c.operator = "Greater" THEN FieldValue(c.field, part) > c.value
  ELSE FieldValue(c.field, part) < c.value

\* Condition::invert
invert(c) ==
  Condition(c.field,
            IF c.operator = "Greater" THEN "Less" ELSE "Greater",
            IF c.operator = "Greater" THEN c.value + 1 ELSE c.value - 1)

\* Range::default and PartRange::default as written (lines 306-313).
RangeDefault4001 == [start |-> 0, size |-> 4001]
PartRangeDefault ==
  [x |-> RangeDefault4001, m |-> RangeDefault4001, a |-> RangeDefault4001,
   s |-> RangeDefault4001]

\* Condition::to_part_range
to_part_range(c) ==
  LET range == IF c.operator = "Greater"
               THEN [start |-> c.value + 1, size |-> 4000 - c.value]
               ELSE [start |-> 0, size |-> c.value]
  IN CASE c.field = "X" -> [PartRangeDefault EXCEPT !.x = range]
       [] c.field = "M" -> [PartRangeDefault EXCEPT !.m = range]
       [] c.field = "A" -> [PartRangeDefault EXCEPT !.a = range]
       [] c.field = "S" -> [PartRangeDefault EXCEPT !.s = range]

\* Range::combine
RangeCombine(r, other) ==
  LET self_end == r.start + r.size
      other_end == other.start + other.size
      start == IF r.start >= other.start THEN r.start ELSE other.start
      end == IF self_end <= other_end THEN self_end ELSE other_end
  IN [start |-> start, size |-> IF start <= end THEN end - start ELSE 0]

\* PartRange::combine
PartRangeCombine(r, other) ==
  [x |-> RangeCombine(r.x, other.x), m |-> RangeCombine(r.m, other.m),
   a |-> RangeCombine(r.a, other.a), s |-> RangeCombine(r.s, other.s)]

\* PartRange::is_zero
is_zero(r) == r.x.size = 0 \/ r.m.size = 0 \/ r.a.size = 0 \/ r.s.size = 0

\* Stage::leaf_node and Rule::leaf_node
StageLeaf(stage) == stage.kind \in {"Accept", "Reject"}
leaf_node(rule) == rule.condition = << >> /\ StageLeaf(rule.target)

\* Rule::should_apply
should_apply(rule, part) ==
  IF rule.condition # << >> THEN matches(rule.condition[1], part) ELSE TRUE

\* Workflow::get_next_stage: the target of the first rule that applies;
\* << >> where none does (the unwrap panics).
get_next_stage(workflow, part) ==
  LET applying == {i \in DOMAIN workflow.rules : should_apply(workflow.rules[i], part)}
  IN IF applying = {} THEN << >>
     ELSE <<workflow.rules[CHOOSE i \in applying : \A j \in applying : i <= j].target>>

\* accept_part (lines 587-594): "panic" where a workflow has no rule that
\* applies.
RECURSIVE AcceptFrom(_, _, _)
AcceptFrom(workflows, stage, part) ==
  IF stage.kind # "Workflow" THEN (IF stage.kind = "Accept" THEN "accepted" ELSE "rejected")
  ELSE LET next == get_next_stage(workflows[stage.idx + 1], part)
       IN IF next = << >> THEN "panic" ELSE AcceptFrom(workflows, next[1], part)

accept_part(workflows, starting_index, part) ==
  AcceptFrom(workflows, StageWorkflow(starting_index), part)

\* ------------------------------------------------------------ day19: make_graph, part_ranges

\* The nodes of Accept and Reject (lines 425-432); -1 and -2 stand for
\* usize::MAX and usize::MAX - 1.
AcceptedNode == Node19(-1, -1)
RejectedNode == Node19(-1, -2)

\* The nodes make_graph adds (lines 433-446).
GraphNodes(workflows) ==
  {AcceptedNode, RejectedNode}
    \cup {Node19(w - 1, r - 1) : <<w, r>> \in
            {p \in (DOMAIN workflows) \X (1..10) :
               p[2] \in DOMAIN workflows[p[1]].rules
                 /\ ~leaf_node(workflows[p[1]].rules[p[2]])}}

Edge19(from, to, weight) == [from |-> from, to |-> to, weight |-> weight]

\* The node a rule's target stands for.
TargetNode(stage) ==
  CASE stage.kind = "Accept" -> AcceptedNode
    [] stage.kind = "Reject" -> RejectedNode
    [] stage.kind = "Workflow" -> Node19(stage.idx, 0)

\* The edges make_graph adds for one rule (lines 449-521), in their order,
\* and whether a node_map.get(..).unwrap() or the panic! of line 507 is met.
\* The edge to a following rule that is a leaf carries no condition.
RuleEdges(workflows, workflow_idx, rule_idx) ==
  LET nodes == GraphNodes(workflows)
      rules == workflows[workflow_idx + 1].rules
      rule == rules[rule_idx + 1]
      start_node == Node19(workflow_idx, rule_idx)
      left == Edge19(start_node, TargetNode(rule.target), rule.condition)
      right_node == Node19(workflow_idx, rule_idx + 1)
  IN IF rule.condition # << >>
     THEN IF TargetNode(rule.target) \notin nodes
          THEN [panic |-> TRUE, edges |-> << >>]
          ELSE IF rule_idx + 1 < Len(rules)
          THEN IF right_node \in nodes
               THEN [panic |-> FALSE,
                     edges |-> <<left, Edge19(start_node, right_node,
                                              <<invert(rule.condition[1])>>)>>]
               ELSE IF StageLeaf(rules[rule_idx + 2].target)
               THEN [panic |-> FALSE,
                     edges |-> <<left, Edge19(start_node,
                                              TargetNode(rules[rule_idx + 2].target), << >>)>>]
               ELSE [panic |-> TRUE, edges |-> <<left>>]
          ELSE [panic |-> FALSE, edges |-> <<left>>]
     ELSE IF rule.target.kind = "Workflow"
     THEN IF TargetNode(rule.target) \notin nodes
          THEN [panic |-> TRUE, edges |-> << >>]
          ELSE [panic |-> FALSE, edges |-> <<left>>]
     ELSE [panic |-> FALSE, edges |-> << >>]

\* make_graph (lines 422-531): the edges of every rule of every workflow.
RECURSIVE EdgesFrom(_, _, _)
EdgesFrom(workflows, workflow_idx, rule_idx) ==
  IF workflow_idx >= Len(workflows) THEN [panic |-> FALSE, edges |-> << >>]
  ELSE IF rule_idx >= Len(workflows[workflow_idx + 1].rules)
  THEN EdgesFrom(workflows, workflow_idx + 1, 0)
  ELSE LET here == RuleEdges(workflows, workflow_idx, rule_idx)
           later == EdgesFrom(workflows, workflow_idx, rule_idx + 1)
       IN IF here.panic THEN here
          ELSE [panic |-> later.panic, edges |-> here.edges \o later.edges]

make_graph(workflows) ==
  LET built == EdgesFrom(workflows, 0, 0)
  IN [nodes |-> GraphNodes(workflows), edges |-> built.edges, panic |-> built.panic]

\* edges_directed(node, Outgoing): the edges out of a node, the one added
\* last first.
RECURSIVE Outgoing(_, _)
Outgoing(edges, node) ==
  IF edges = << >> THEN << >>
  ELSE Outgoing(Tail(edges), node)
         \o (IF Head(edges).from = node THEN <<Head(edges)>> ELSE << >>)

\* What the for loop of lines 399-410 pushes.
RECURSIVE PushesOf(_, _)
PushesOf(out, cur_range) ==
  IF out = << >> THEN << >>
  ELSE LET edge == Head(out)
           next_range == IF edge.weight # << >>
                         THEN PartRangeCombine(cur_range, to_part_range(edge.weight[1]))
                         ELSE cur_range
       IN (IF edge.weight # << >> /\ is_zero(next_range) THEN << >>
           ELSE <<[node |-> edge.to, range |-> next_range]>>)
            \o PushesOf(Tail(out), cur_range)

\* The while loop of part_ranges (lines 391-411).
RECURSIVE RangesLoop(_, _, _)
RangesLoop(edges, stack, collected) ==
  IF stack = << >> THEN collected
  ELSE LET top == stack[Len(stack)]
           rest == SubSeq(stack, 1, Len(stack) - 1)
       IN IF top.node = AcceptedNode
          THEN RangesLoop(edges, rest, Append(collected, top.range))
          ELSE IF top.node = RejectedNode
          THEN RangesLoop(edges, rest, collected)
          ELSE RangesLoop(edges,
                          rest \o PushesOf(Outgoing(edges, top.node), top.range),
                          collected)

\* part_ranges (lines 373-413); the unwrap of line 388 panics where the
\* first rule of the starting workflow has no node.
part_ranges(graph, starting_index) ==
  IF Node19(starting_index, 0) \notin graph.nodes THEN [panic |-> TRUE, ranges |-> << >>]
  ELSE [panic |-> FALSE,
        ranges |-> RangesLoop(graph.edges,
                              <<[node |-> Node19(starting_index, 0),
                                 range |-> PartRangeDefault]>>,
                              << >>)]

\* ------------------------------------------------------------ day19: the comparison

\* The generated conditions and parts.
Cuts19 == 1..MaxCut
Conditions19 ==
  {Condition(f, o, v) : f \in {"X", "M", "A", "S"}, o \in {"Greater", "Less"},
                        v \in Cuts19 \cup {3999}}
WorkflowConditions19 ==
  {Condition(f, o, v) : f \in {"X", "M"}, o \in {"Greater", "Less"}, v \in Cuts19}
Ratings4000 == 1..(MaxCut + 1) \cup {3999, 4000}
Parts19 == [x : Ratings4000, m : Ratings4000, a : {1, 4000}, s : {1, 4000}]
WorkflowParts19 == [x : 1..(MaxCut + 1), m : 1..(MaxCut + 1), a : {1}, s : {1}]

\* The generated workflows: "in" with one or two conditions, its targets
\* Accept, Reject or the second workflow, which has one condition.
Workflow19(rules) == [rules |-> rules]
Workflows19 ==
  LET first == {Rule19(<<c>>, t) : c \in WorkflowConditions19,
                                   t \in {StageAccept, StageReject, StageWorkflow(1)}}
      second == {Rule19(<<c>>, t) : c \in WorkflowConditions19,
                                    t \in {StageAccept, StageReject}}
      last == {Rule19(<< >>, t) : t \in {StageAccept, StageReject, StageWorkflow(1)}}
      ins == {<<f, l>> : f \in first, l \in last}
               \cup {<<f, n, l>> : f \in first, n \in second, l \in last}
      others == {<<Rule19(<<Condition("M", "Greater", 1)>>, StageAccept),
                   Rule19(<< >>, StageReject)>>,
                 <<Rule19(<<Condition("X", "Less", 2)>>, StageReject),
                   Rule19(<< >>, StageAccept)>>}
  IN {<<Workflow19(i), Workflow19(o)>> : i \in ins, o \in others}

\* The workflows and parts of the tests' TEST_INPUT (lines 668-684), the
\* workflows by their index.
TEST_WORKFLOWS19 ==
  LET If(f, o, v, t) == Rule19(<<Condition(f, o, v)>>, t)
      Else(t) == Rule19(<< >>, t)
      A == StageAccept
      R == StageReject
      px == 0  pv == 1  lnx == 2  rfg == 3  qs == 4  qkq == 5  crn == 6
      qqz == 8  gd == 9  hdj == 10
      W(i) == StageWorkflow(i)
  IN << Workflow19(<<If("A", "Less", 2006, W(qkq)), If("M", "Greater", 2090, A), Else(W(rfg))>>),
        Workflow19(<<If("A", "Greater", 1716, R), Else(A)>>),
        Workflow19(<<If("M", "Greater", 1548, A), Else(A)>>),
        Workflow19(<<If("S", "Less", 537, W(gd)), If("X", "Greater", 2440, R), Else(A)>>),
        Workflow19(<<If("S", "Greater", 3448, A), Else(W(lnx))>>),
        Workflow19(<<If("X", "Less", 1416, A), Else(W(crn))>>),
        Workflow19(<<If("X", "Greater", 2662, A), Else(R)>>),
        Workflow19(<<If("S", "Less", 1351, W(px)), Else(W(qqz))>>),
        Workflow19(<<If("S", "Greater", 2770, W(qs)), If("M", "Less", 1801, W(hdj)), Else(R)>>),
        Workflow19(<<If("A", "Greater", 3333, R), Else(R)>>),
        Workflow19(<<If("M", "Greater", 838, A), Else(W(pv))>>) >>

TEST_START19 == 7

TEST_PARTS19 ==
  { [x |-> 787, m |-> 2655, a |-> 1222, s |-> 2876],
    [x |-> 1679, m |-> 44, a |-> 2067, s |-> 496],
    [x |-> 2036, m |-> 264, a |-> 79, s |-> 2244],
    [x |-> 2461, m |-> 1339, a |-> 466, s |-> 291],
    [x |-> 2127, m |-> 1623, a |-> 2188, s |-> 1013] }

Init19r ==
  /\ \/ /\ call19 = "condition"
        /\ condition19 \in Conditions19
        /\ part19 \in Parts19
        /\ workflows19 = << >> /\ start19 = 0
     \/ /\ call19 = "workflows"
        /\ \/ workflows19 \in Workflows19 /\ start19 = 0 /\ part19 \in WorkflowParts19
           \/ workflows19 = TEST_WORKFLOWS19 /\ start19 = TEST_START19
                /\ part19 \in TEST_PARTS19
        /\ condition19 = << >>
  /\ found19 = << >>
  /\ contained19 = << >>
  /\ matched19 = << >>
  /\ pc19r = "call"
  /\ RestIdle19r

\* condition.to_part_range().contains(&part)
ToPartRangeContains ==
  /\ pc19r = "call" /\ call19 = "condition" /\ contained19 = << >>
  /\ contained19' = <<PartRangeContains(to_part_range(condition19), part19)>>
  /\ UNCHANGED <<call19, condition19, workflows19, start19, part19, found19, matched19, pc19r>>
  /\ UNCHANGED Rest19r

\* condition.matches(&part)
Matches19 ==
  /\ pc19r = "call" /\ call19 = "condition" /\ matched19 = << >>
  /\ matched19' = <<matches(condition19, part19)>>
  /\ UNCHANGED <<call19, condition19, workflows19, start19, part19, found19, contained19,
                 pc19r>>
  /\ UNCHANGED Rest19r

\* part_ranges on make_graph(&workflows), and whether a range it returns
\* contains the part (lines 608-615 and 628).
PartRangesContain ==
  /\ pc19r = "call" /\ call19 = "workflows" /\ contained19 = << >>
  /\ LET graph == make_graph(workflows19)
         r == part_ranges(graph, start19)
     IN IF graph.panic \/ r.panic
        THEN pc19r' = "panic" /\ UNCHANGED <<found19, contained19>>
        ELSE /\ found19' = r.ranges
             /\ contained19' =
                  <<\E i \in DOMAIN r.ranges : PartRangeContains(r.ranges[i], part19)>>
             /\ UNCHANGED pc19r
  /\ UNCHANGED <<call19, condition19, workflows19, start19, part19, matched19>>
  /\ UNCHANGED Rest19r

\* accept_part(&workflows, starting_workflow, &part)
AcceptPart19 ==
  /\ pc19r = "call" /\ call19 = "workflows" /\ matched19 = << >>
  /\ LET r == accept_part(workflows19, start19, part19)
     IN IF r = "panic"
        THEN pc19r' = "panic" /\ UNCHANGED matched19
        ELSE matched19' = <<r = "accepted">> /\ UNCHANGED pc19r
  /\ UNCHANGED <<call19, condition19, workflows19, start19, part19, found19, contained19>>
  /\ UNCHANGED Rest19r

Next19r == ToPartRangeContains \/ Matches19 \/ PartRangesContain \/ AcceptPart19

Spec19r == Init19r /\ [][Next19r]_vars

\* ------------------------------------------------------------ day16: claims

\* C1: every fire_laser call on a generated grid from an in-bounds cursor
\* reaches the empty worklist (the loop ends), and the seen set never holds
\* more than width * height * 4 cursors, cycles of mirrors included.
C1_Terminates ==
  /\ [](Cardinality(seen) <= Len(grid[1]) * Len(grid) * 4)
  /\ ((pc = "call") ~> (pc = "loop" /\ lasers = << >>))

\* The beam has run a cycle: the cursor at the front of the worklist is the
\* start cursor again, and it has been expanded before.
C1_Witness ==
  /\ pc = "loop"
  /\ lasers # << >>
  /\ Head(lasers) = start_laser
  /\ start_laser \in seen
  /\ Cardinality(seen) >= 4

\* The grid's tile under a cursor.
TileAt(g, c) == g[c.y + 1][c.x + 1]

\* The energized cells of a result grid, as <<x, y>> positions.
Energized(res) == {<<p[2] - 1, p[1] - 1>> : p \in {q \in Cells(res) : res[q[1]][q[2]]}}

\* The last value fire_laser returned.
LastRet == rets[Len(rets)]

\* A fire_laser call has just returned (its frame is still in place).
Returned == pc \in {"call", "done"} /\ rets # << >>

\* The transition rule: the cursors one step after cursor c.
Successors(g, c) ==
  LET dirs == new_directions(TileAt(g, c), c.direction)
  IN UNION {{n[k] : k \in DOMAIN n} :
              n \in {next_tile(Len(g[1]), Len(g), [c EXCEPT !.direction = dirs[j]]) :
                       j \in DOMAIN dirs}}

\* The cursors reachable from the cursors of `frontier` by the transition rule.
RECURSIVE ReachFrom(_, _, _)
ReachFrom(g, frontier, acc) ==
  IF frontier = {} THEN acc
  ELSE LET new == (UNION {Successors(g, c) : c \in frontier}) \ (acc \cup frontier)
       IN ReachFrom(g, new, acc \cup frontier)

\* The cells that hold some cursor reachable from `start`.
ReachCells(g, start) == {<<c.x, c.y>> : c \in ReachFrom(g, {start}, {})}

\* C2: fire_laser returns exactly the number of distinct cells that hold a
\* cursor reachable from the start cursor by new_directions followed by
\* next_tile, and the cells it marks are exactly those cells.
C2_CountsReachableCells ==
  Returned =>
    /\ Energized(result) = ReachCells(grid, start_laser)
    /\ LastRet = Cardinality(ReachCells(grid, start_laser))

\* A run has returned in which a splitter split the beam, both halves went
\* on, and one of them was turned by a mirror.
C2_Witness ==
  /\ Returned
  /\ \E c \in seen : Cardinality(Successors(grid, c)) = 2
  /\ \E c \in seen : TileAt(grid, c) \in {"FMirror", "BMirror"} /\ Successors(grid, c) # {}
  /\ LastRet >= 4

\* The transition table as the specification words it: the set of outgoing
\* directions of a tile entered in a direction.
C3_Table(tile, direction) ==
  CASE tile = "Empty" -> {direction}
    [] tile = "FMirror" ->
         (CASE direction = "Up" -> {"Right"} [] direction = "Right" -> {"Up"}
            [] direction = "Down" -> {"Left"} [] direction = "Left" -> {"Down"})
    [] tile = "BMirror" ->
         (CASE direction = "Up" -> {"Left"} [] direction = "Left" -> {"Up"}
            [] direction = "Down" -> {"Right"} [] direction = "Right" -> {"Down"})
    [] tile = "HSplitter" ->
         IF direction \in {"Up", "Down"} THEN {"Left", "Right"} ELSE {direction}
    [] tile = "VSplitter" ->
         IF direction \in {"Left", "Right"} THEN {"Up", "Down"} ELSE {direction}

\* C3: for the cursor the loop is about to take, new_directions gives
\* exactly the directions of the transition table for its tile and direction,
\* each once.
C3_TransitionTable ==
  (pc = "loop" /\ lasers # << >>) =>
    LET c == Head(lasers)
        dirs == new_directions(TileAt(grid, c), c.direction)
    IN /\ {dirs[k] : k \in DOMAIN dirs} = C3_Table(TileAt(grid, c), c.direction)
       /\ Len(dirs) = Cardinality(C3_Table(TileAt(grid, c), c.direction))

\* The loop is about to expand a cursor that reached a horizontal splitter
\* from above or below, after at least one step.
C3_Witness ==
  /\ pc = "loop"
  /\ lasers # << >>
  /\ seen # {}
  /\ TileAt(grid, Head(lasers)) = "HSplitter"
  /\ Head(lasers).direction \in {"Up", "Down"}

\* The frames the loop of fire_laser goes through from frame st (pop_front).
RECURSIVE FifoFrames(_, _)
FifoFrames(g, st) ==
  IF st.lasers = << >> THEN {st}
  ELSE {st} \cup FifoFrames(g, LoopBody(g, Len(g[1]), Len(g), st, 1))

\* C4: whatever laser of the worklist each iteration takes (the last one for
\* pop_back, any other for any other order), the run ends with the energized
\* cells and the count fire_laser gives with pop_front.
C4_OrderIndependent ==
  Returned =>
    /\ result = fire_laser(grid, start_laser).result
    /\ LastRet = CountTrue(fire_laser(grid, start_laser).result)

\* A run that left fire_laser's order: with lasers still to take, its frame
\* is none of the frames of the pop_front run.
C4_Witness ==
  /\ pc = "loop"
  /\ Len(lasers) >= 1
  /\ seen # {}
  /\ Frame \notin FifoFrames(grid, FireEntry(grid, start_laser))

\* The largest number of a non-empty finite set of numbers.
SetMax(S) == CHOOSE m \in S : \A n \in S : n <= m

\* The edge cursors as the specification words them: every cell of each of
\* the four edges, pointing inward.
C5_EdgeCursors(width, height) ==
  {Laser(0, y, "Right") : y \in 0..(height - 1)}
    \cup {Laser(width - 1, y, "Left") : y \in 0..(height - 1)}
    \cup {Laser(x, 0, "Down") : x \in 0..(width - 1)}
    \cup {Laser(x, height - 1, "Up") : x \in 0..(width - 1)}

\* The start cursors part2 has fired (the first of `fired` is part1's).
Part2Fired == SubSeq(fired, 2, Len(fired))

\* C5: when part2 has returned, it has fired the laser 2 * (width + height)
\* times, once from each inward-pointing edge cursor and from nothing else,
\* and its value is the largest energized count of these runs.
C5_Part2EdgeMaximum ==
  (pc = "done") =>
    LET width == Len(grid[1])
        height == Len(grid)
        edge == C5_EdgeCursors(width, height)
    IN /\ Len(Part2Fired) = 2 * (width + height)
       /\ {Part2Fired[k] : k \in DOMAIN Part2Fired} = edge
       /\ \A j, k \in DOMAIN Part2Fired : j # k => Part2Fired[j] # Part2Fired[k]
       /\ answer2 = SetMax({CountTrue(fire_laser(grid, c).result) : c \in edge})

\* part2 has returned on a grid with both sides longer than one cell, and a
\* start other than part1's gave the maximum.
C5_Witness ==
  /\ pc = "done"
  /\ Len(grid) >= 2
  /\ Len(grid[1]) >= 2
  /\ answer2 > answer1

\* C6: on TEST_INPUT part1 returns 46 and part2 returns 51.
C6_ReferenceAnswers ==
  (input = TEST_INPUT) =>
    /\ (answer1 # -1 => answer1 = 46)
    /\ (pc = "done" => answer2 = 51)

\* main has run both parts on TEST_INPUT.
C6_Witness ==
  /\ input = TEST_INPUT
  /\ pc = "done"
  /\ Len(fired) = 41

\* Whether direction d points off grid g from the cell of cursor c.
PointsOff(g, c, d) ==
  \/ d = "Up" /\ c.y = 0
  \/ d = "Down" /\ c.y = Len(g) - 1
  \/ d = "Left" /\ c.x = 0
  \/ d = "Right" /\ c.x = Len(g[1]) - 1

\* A fire_laser call is running or has just returned.
InCall == pc = "loop" \/ Returned

\* Nothing but the start cursor is ever on the worklist, and the value
\* returned is 1.
OnlyStartCell ==
  /\ pc = "loop" => (lasers = << start_laser >> /\ seen = {}) \/ lasers = << >>
  /\ Returned => LastRet = 1

\* C7 as claimed: from every start cursor on an edge cell that points off
\* the grid, fire_laser returns 1 and pushes no further cursor.
C7_OutwardStartAsClaimed ==
  (InCall /\ PointsOff(grid, start_laser, start_laser.direction)) => OnlyStartCell

\* C7 amended: from a start cursor that points off the grid, fire_laser
\* returns 1 and pushes no further cursor when every direction the start tile
\* gives the beam points off the grid (an Empty tile always does so); when the
\* start tile turns the beam into a direction that stays on the grid, more
\* than the start cell is energized.
C7_OutwardStart ==
  (InCall /\ PointsOff(grid, start_laser, start_laser.direction)) =>
    IF \A d \in C3_Table(TileAt(grid, start_laser), start_laser.direction) :
         PointsOff(grid, start_laser, d)
      THEN OnlyStartCell
      ELSE Returned => LastRet >= 2

\* A run has returned 1 from a start cursor pointing off a grid with both
\* sides longer than one cell.
C7_Witness ==
  /\ Returned
  /\ PointsOff(grid, start_laser, start_laser.direction)
  /\ TileAt(grid, start_laser) = "Empty"
  /\ Len(grid) >= 2
  /\ Len(grid[1]) >= 2
  /\ LastRet = 1

\* The straight line of cells from cursor c in its direction to the boundary.
LineCells(g, c) ==
  CASE c.direction = "Up" -> {<<c.x, y>> : y \in 0..c.y}
    [] c.direction = "Down" -> {<<c.x, y>> : y \in c.y..(Len(g) - 1)}
    [] c.direction = "Left" -> {<<x, c.y>> : x \in 0..c.x}
    [] c.direction = "Right" -> {<<x, c.y>> : x \in c.x..(Len(g[1]) - 1)}

AllEmpty(g) == \A p \in Cells(g) : g[p[1]][p[2]] = "Empty"

\* C8: on a grid of Empty tiles fire_laser returns the number of cells of
\* the straight line from the start cell to the boundary, and marks that line.
C8_EmptyGridLine ==
  (Returned /\ AllEmpty(grid)) =>
    /\ LastRet = Cardinality(LineCells(grid, start_laser))
    /\ Energized(result) = LineCells(grid, start_laser)

\* A run has returned on an all-Empty grid of several rows and columns after
\* crossing at least three cells.
C8_Witness ==
  /\ Returned
  /\ AllEmpty(grid)
  /\ Len(grid) >= 2
  /\ Len(grid[1]) >= 2
  /\ LastRet >= 3

\* The left-right mirror image: of a tile, a direction, a grid, a cursor.
MirrorTile(t) ==
  CASE t = "FMirror" -> "BMirror" [] t = "BMirror" -> "FMirror" [] OTHER -> t

MirrorDirection(d) ==
  CASE d = "Left" -> "Right" [] d = "Right" -> "Left" [] OTHER -> d

MirrorGrid(g) ==
  [y \in DOMAIN g |-> [x \in DOMAIN g[y] |-> MirrorTile(g[y][Len(g[y]) + 1 - x])]]

MirrorLaser(g, c) == Laser(Len(g[1]) - 1 - c.x, c.y, MirrorDirection(c.direction))

\* C9: the value fire_laser returns is the value it gives on the mirror
\* image of the grid from the mirror image of the start cursor.
C9_MirrorSymmetry ==
  Returned =>
    LastRet = CountTrue(fire_laser(MirrorGrid(grid), MirrorLaser(grid, start_laser)).result)

\* A run has returned on a grid that differs from its mirror image, after a
\* mirror turned the beam and it went on.
C9_Witness ==
  /\ Returned
  /\ MirrorGrid(grid) # grid
  /\ \E c \in seen : TileAt(grid, c) \in {"FMirror", "BMirror"} /\ Successors(grid, c) # {}
  /\ LastRet >= 3

\* C10: the second of two fire_laser calls on the same grid and start
\* cursor returns what the first returned.
C10_SameResultTwice ==
  (pc = "done") => (Len(rets) = 2 /\ rets[1] = rets[2])

\* Two runs have returned, each after the beam crossed several cells and was
\* turned or split on its way.
C10_Witness ==
  /\ pc = "done"
  /\ Len(rets) = 2
  /\ fired[1] = fired[2]
  /\ rets[2] >= 3
  /\ \E c \in seen : TileAt(grid, c) # "Empty" /\ Successors(grid, c) # {}

\* The characters that are tiles.
TileChars == {".", "/", "\\", "-", "|"}

\* Some character of the text is no tile.
HasUnknownChar(s) == \E y \in DOMAIN s : \E x \in DOMAIN s[y] : s[y][x] \notin TileChars

\* C11: on a text that holds a character other than '.', '/', '\', '-' and
\* '|' the run is aborted in parse_input: no grid is ever built from it, the
\* laser is never fired and neither part returns a value.
C11_UnknownCharAborts ==
  HasUnknownChar(input) =>
    /\ pc \in {"part1", "panic"}
    /\ grid = << >>
    /\ fired = << >>
    /\ answer1 = -1
    /\ answer2 = -1

\* The run was aborted on a text of two lines whose first line is all tiles
\* and whose second line holds the character that is no tile.
C11_Witness ==
  /\ pc = "panic"
  /\ Len(input) = 2
  /\ input[1] # << >>
  /\ ~HasUnknownChar(<< input[1] >>)
  /\ HasUnknownChar(<< input[2] >>)

\* The lines of the text do not all have the same length.
Ragged(s) == \E j, k \in DOMAIN s : Len(s[j]) # Len(s[k])

\* C12 as claimed: on the empty text and on a text whose lines differ in
\* length, neither part1 nor part2 returns a count.
C12_MalformedShapeAborts ==
  (input = << >> \/ Ragged(input)) => (answer1 = -1 /\ answer2 = -1)

\* ------------------------------------------------------------ day19: claims

\* The sum of every count the closures send.
TotalAccepted(rs) ==
  LET RECURSIVE Sum(_)
      Sum(k) == IF k < 0 THEN 0
                ELSE Accepted(rs, k \div (MaxRating + 1), k % (MaxRating + 1)) + Sum(k - 1)
  IN Sum((MaxRating + 1) * (MaxRating + 1) - 1)

\* C13: part2 never comes to rest before it has returned: as long as it has not
\* returned, some thread of it can take a step (no deadlock), so that the
\* summing thread ends, sends the total and part2 returns it.
C13_Part2NeverStuck == part2_pc = "returned" \/ ENABLED Next19

\* Where part2 comes to rest: every closure has sent every count and is gone,
\* the summing thread has added them all, and it still waits in rx.recv().
C13_Stuck ==
  /\ part2_pc = "recv"
  /\ summer_pc = "recv"
  /\ next_x = MaxRating + 1
  /\ pool_jobs = << >>
  /\ \A w \in Workers : pool_threads[w].at = "idle"
  /\ rx_queue = << >>
  /\ count = TotalAccepted(ranges)
  /\ tx_handles = {OwnHandle}

\* ------------------------------------------------------------ day17: claims

\* The movement rule: the longest run in one direction, and the shortest run
\* before a turn.
MaxRun(part_2) == IF part_2 THEN 10 ELSE 3
MinRun(part_2) == IF part_2 THEN 4 ELSE 1

Directions17 == {"Up", "Down", "Left", "Right"}

\* The cell one step from (x, y) against the direction d: where a step in
\* direction d to (x, y) comes from.
StepBack(x, y, d) ==
  CASE d = "Up" -> << x, y + 1 >>
    [] d = "Down" -> << x, y - 1 >>
    [] d = "Left" -> << x + 1, y >>
    [] d = "Right" -> << x - 1, y >>

\* The ways to stand on a cell other than by starting there: the direction of
\* the last step and the length of the run it ends.
Arrivals(g, part_2) ==
  {a \in [x : 0..(Len(g[1]) - 1), y : 0..(Len(g) - 1), direction : Directions17,
          steps : 1..MaxRun(part_2)] :
     LET b == StepBack(a.x, a.y, a.direction)
     IN b[1] \in 0..(Len(g[1]) - 1) /\ b[2] \in 0..(Len(g) - 1)}

NoLoss == 1000000

Least(S) == IF S = {} THEN NoLoss ELSE CHOOSE n \in S : \A o \in S : n <= o

\* One round of relaxation: the least loss of a path of the rule that ends in
\* arrival a, given the least losses d known so far. A path starts on (0, 0)
\* in any direction; a run goes on up to MaxRun steps; a turn is to the left
\* or right, after a run of at least MinRun steps.
Relax(g, part_2, d) ==
  [a \in Arrivals(g, part_2) |->
     LET b == StepBack(a.x, a.y, a.direction)
         loss == g[a.y + 1][a.x + 1]
         before ==
           IF a.steps > 1
             THEN {o \in Arrivals(g, part_2) :
                     o.x = b[1] /\ o.y = b[2] /\ o.direction = a.direction
                       /\ o.steps = a.steps - 1}
             ELSE {o \in Arrivals(g, part_2) :
                     o.x = b[1] /\ o.y = b[2]
                       /\ o.direction \notin {a.direction, opposite(a.direction)}
                       /\ o.steps >= MinRun(part_2)}
         first == IF a.steps = 1 /\ b = << 0, 0 >> THEN {loss} ELSE {}
     IN Least({d[a]} \cup first \cup {d[o] + loss : o \in {p \in before : d[p] < NoLoss}})]

RECURSIVE LeastLosses(_, _, _)
LeastLosses(g, part_2, d) ==
  LET e == Relax(g, part_2, d)
  IN IF e = d THEN d ELSE LeastLosses(g, part_2, e)

\* The least heat loss of a path of the rule from the top-left to the
\* bottom-right cell; NoLoss when there is no such path.
MinHeatLoss(g, part_2) ==
  IF Len(g) = 1 /\ Len(g[1]) = 1 THEN 0
  ELSE LET d == LeastLosses(g, part_2, [a \in Arrivals(g, part_2) |-> NoLoss])
       IN Least({d[a] : a \in {o \in Arrivals(g, part_2) :
                                 o.x = Len(g[1]) - 1 /\ o.y = Len(g) - 1}})

\* C14: find_path returns the least heat loss over the paths that obey the
\* movement rule, on every digit grid: what it returns is that minimum, and it
\* does not give up while such a path exists.
C14_FindPathMinimum ==
  /\ pc17 = "returned" => ret17 = MinHeatLoss(grid17, is_part_2)
  /\ pc17 = "panic" => MinHeatLoss(grid17, is_part_2) = NoLoss

\* Part 2 on a grid whose cheap route starts downwards: find_path returns the
\* loss of a costlier route.
C14_DownFirstMissed ==
  /\ pc17 = "returned"
  /\ is_part_2
  /\ ret17 > MinHeatLoss(grid17, is_part_2)

\* find_path with part 1's rule, and with part 2's rule on the grids where
\* the first run goes right, returns the minimum.
C14_Part1Minimum ==
  /\ (pc17 = "returned" /\ ~is_part_2) => ret17 = MinHeatLoss(grid17, is_part_2)
  /\ (pc17 = "panic" /\ ~is_part_2 /\ Len(grid17) * Len(grid17[1]) > 1) =>
        MinHeatLoss(grid17, is_part_2) = NoLoss

\* ------------------------------------------------------------ day14: claims

\* One spin cycle without any cache: the rows tilted north, west, south, east.
SpinCycle(rows) ==
  EastRows(SouthRows(WestRows(NorthRows(rows, 1), 1), 1), 1)

RECURSIVE SpinCycles(_, _)
SpinCycles(rows, n) == IF n = 0 THEN rows ELSE SpinCycle(SpinCycles(rows, n - 1))

\* C15: after any number n of rotate calls the rows are those of n spin cycles
\* without a cache from the initial map, and the load part2 returns is the
\* load of these rows.
C15_RotateIsSpinCycles ==
  /\ map.rows = SpinCycles(map0, Len(calls))
  /\ pc14 = "returned" =>
       ret14 = compute_load_from(SpinCycles(map0, MaxRotations), 1)

\* Rotate calls took their result from the cache (the cache has fewer keys
\* than there were calls, so the last ones found theirs), and the last result
\* differs from the rows it started on: the cycles repeat with a period above 1.
C15_Witness ==
  /\ calls # << >>
  /\ Cardinality(DOMAIN map.cache) < Len(calls)
  /\ map.rows # rows_before
  /\ Len(map.compressed_cache) > 4

\* The step of a tilt, in x and y.
Toward(name) ==
  CASE name = "tilt_north" -> << 0, -1 >>
    [] name = "tilt_south" -> << 0, 1 >>
    [] name = "tilt_west" -> << -1, 0 >>
    [] name = "tilt_east" -> << 1, 0 >>

\* No round rock has an Empty tile next to it in the direction of the tilt.
Settled(rows, name) ==
  \A y \in DOMAIN rows : \A x \in DOMAIN rows[y] :
    LET ny == y + Toward(name)[2]
        nx == x + Toward(name)[1]
    IN (rows[y][x] = "Round" /\ ny \in DOMAIN rows /\ nx \in DOMAIN rows[y])
         => rows[ny][nx] # "Empty"

\* The two grids have the same shape and the same Flat tiles.
FlatFixed(old_rows, new_rows) ==
  /\ DOMAIN old_rows = DOMAIN new_rows
  /\ \A y \in DOMAIN old_rows :
       /\ DOMAIN old_rows[y] = DOMAIN new_rows[y]
       /\ \A x \in DOMAIN old_rows[y] : (old_rows[y][x] = "Flat") <=> (new_rows[y][x] = "Flat")

\* The lines a tilt works along: the columns for north and south, the rows
\* for west and east.
Lines14(rows, name) ==
  IF name \in {"tilt_north", "tilt_south"}
    THEN [x \in DOMAIN rows[1] |-> [y \in DOMAIN rows |-> rows[y][x]]]
    ELSE rows

\* The round rocks of a line that have exactly k flat rocks before them: the
\* rocks of the line's k-th segment between flat rocks.
RoundsInSegment(line, k) ==
  Cardinality({p \in DOMAIN line :
     /\ line[p] = "Round"
     /\ Cardinality({q \in 1..p : line[q] = "Flat"}) = k})

SegmentsKept(old_rows, new_rows, name) ==
  \A i \in DOMAIN Lines14(old_rows, name) :
    \A k \in 0..Len(Lines14(old_rows, name)[i]) :
      RoundsInSegment(Lines14(old_rows, name)[i], k)
        = RoundsInSegment(Lines14(new_rows, name)[i], k)

\* C16: after a tilt no round rock has an Empty tile as its neighbour in the
\* direction of the tilt, every Flat tile is where it was, and each segment
\* between flat rocks of each line holds as many round rocks as before.
C16_TiltSettles ==
  calls # << >> =>
    /\ Settled(map.rows, calls[Len(calls)])
    /\ FlatFixed(rows_before, map.rows)
    /\ SegmentsKept(rows_before, map.rows, calls[Len(calls)])

\* A second tilt, in another direction than the first, moved rocks on a map
\* with a flat rock, and left a round rock resting against another one.
C16_Witness ==
  /\ Len(calls) = 2
  /\ calls[1] # calls[2]
  /\ map.rows # rows_before
  /\ \E y \in DOMAIN map.rows : \E x \in DOMAIN map.rows[y] : map.rows[y][x] = "Flat"
  /\ \E y \in DOMAIN map.rows : \E x \in DOMAIN map.rows[y] :
       LET ny == y + Toward(calls[2])[2]
           nx == x + Toward(calls[2])[1]
       IN /\ map.rows[y][x] = "Round"
          /\ ny \in DOMAIN map.rows
          /\ nx \in DOMAIN map.rows[y]
          /\ map.rows[ny][nx] = "Round"

\* ------------------------------------------------------------ day15: claims

\* The places of the map that hold a lens: box and slot.
Places(bs) == UNION {{<< b, i >> : i \in DOMAIN bs[b]} : b \in DOMAIN bs}

\* The places of a label among the places ps.
PlacesOf(bs, ps, label) == {p \in ps : bs[p[1]][p[2]].label = label}

\* A sequence without its i-th element.
Without(seq, i) == [k \in 1..(Len(seq) - 1) |-> IF k < i THEN seq[k] ELSE seq[k + 1]]

\* What the last operation did to the boxes, stated from the boxes before
\* it: an Insert of a label that is there changes the value in its slot and
\* nothing else; an Insert of a new label appends the lens to box hash(label);
\* a Remove takes the label's lens out of its box and closes the gap, and does
\* nothing when the label is not there.
LastOpAsStated ==
  LET o == ops[Len(ops)]
      h == hash(o.label)
      at == PlacesOf(boxes_before, Places(boxes_before), o.label)
  IN CASE o.op = "Insert" /\ at # {} ->
            \E p \in at :
              boxes = [boxes_before EXCEPT ![p[1]][p[2]] = Lens(o.label, o.value)]
       [] o.op = "Insert" /\ at = {} ->
            boxes = [boxes_before EXCEPT ![h] = boxes_before[h] \o << Lens(o.label, o.value) >>]
       [] o.op = "Remove" /\ at # {} ->
            \E p \in at :
              boxes = [boxes_before EXCEPT ![p[1]] = Without(boxes_before[p[1]], p[2])]
       [] o.op = "Remove" /\ at = {} -> boxes = boxes_before

\* C17: after any operations each label is at most once in the map and only
\* in box hash(label), and the last operation did what is stated of it.
C17_HashMapKeeps ==
  boxes # << >> =>
    /\ LET ps == Places(boxes)
       IN \A label \in Labels15 :
            /\ Cardinality(PlacesOf(boxes, ps, label)) <= 1
            /\ \A p \in PlacesOf(boxes, ps, label) : p[1] = hash(label)
    /\ ops # << >> => LastOpAsStated

\* A Remove took the first of two lenses out of a box, and the other lens
\* moved up; before it an Insert had replaced a value.
C17_Witness ==
  /\ Len(ops) = MaxOps
  /\ ops[MaxOps].op = "Remove"
  /\ Len(boxes_before[hash(ops[MaxOps].label)]) = 2
  /\ boxes_before[hash(ops[MaxOps].label)][1].label = ops[MaxOps].label
  /\ boxes[hash(ops[MaxOps].label)] = << boxes_before[hash(ops[MaxOps].label)][2] >>
  /\ \E k \in 2..(MaxOps - 1) : \E j \in 1..(k - 1) :
       /\ ops[k].op = "Insert"
       /\ ops[j].op = "Insert"
       /\ ops[j].label = ops[k].label
       /\ ops[j].value # ops[k].value

\* ------------------------------------------------------------ day20: claims

\* The pulses of a state in a sequence of pulses.
CountState(seq, state) == Cardinality({i \in DOMAIN seq : seq[i].state = state})

\* C18: the pulses are handled in the order they were sent (the pulses handled
\* are the first ones sent, the queue holds the rest in order); each handled
\* pulse is counted once, as low or as high, whatever its destination;
\* process_pulses returns with an empty queue, every pulse sent being handled;
\* and part1 returns the product of the low and the high pulses of all pushes.
C18_FifoCountedOnce ==
  /\ Len(handled) <= Len(sent)
  /\ handled = SubSeq(sent, 1, Len(handled))
  /\ pc20 # "panic" => pulses = SubSeq(sent, Len(handled) + 1, Len(sent))
  /\ pc20 = "process" =>
       /\ part1_low + low = CountState(handled, "Low")
       /\ part1_high + high = CountState(handled, "High")
  /\ pc20 \in {"push", "returned"} =>
       /\ pulses = << >>
       /\ handled = sent
       /\ part1_low = CountState(sent, "Low")
       /\ part1_high = CountState(sent, "High")
       /\ Len(sent) = part1_low + part1_high
  /\ pc20 = "returned" =>
       ret20 = CountState(sent, "Low") * CountState(sent, "High")

\* part1 has returned after pushes that sent high pulses and pulses to a
\* module that does not exist, with three pulses waiting at once.
C18_Witness ==
  /\ pc20 = "returned"
  /\ ret20 > 0
  /\ \E i \in DOMAIN handled : handled[i].destination \notin DOMAIN parts
  /\ \E i \in DOMAIN sent :
       /\ sent[i].source = BROADCASTER
       /\ i + 2 \in DOMAIN sent
       /\ sent[i + 1].source = BROADCASTER
       /\ sent[i + 2].source # BROADCASTER
       /\ sent[i + 2].destination = sent[i + 1].destination

\* ------------------------------------------------------------ day10: claims

\* Two neighbouring positions are joined when each one's tile leads to the other.
Joined10(g, p, n) ==
  /\ n \in Neighbours10(p, Len(g[1]), Len(g))
  /\ Contains10(char_to_directions(g[p[2]][p[1]]), Toward10(p, n))
  /\ Contains10(char_to_directions(g[n[2]][n[1]]), Toward10(n, p))

JoinedTo(g, p) == {n \in Neighbours10(p, Len(g[1]), Len(g)) : Joined10(g, p, n)}

\* The positions passed when leaving the start through cur, coming from prev,
\* if that way leads back to the start; none if it ends somewhere else.
RECURSIVE WayBack(_, _, _, _)
WayBack(g, prev, cur, passed) ==
  IF g[cur[2]][cur[1]] = "S" THEN passed \cup {cur}
  ELSE LET onward == JoinedTo(g, cur) \ {prev}
       IN IF onward = {} THEN {}
          ELSE WayBack(g, cur, CHOOSE n \in onward : TRUE, passed \cup {cur})

\* The main loop: the positions of the closed loop through S.
MainLoop(g) ==
  LET s == get_start_pos(g)
  IN UNION {WayBack(g, s, a, {}) : a \in JoinedTo(g, s)}

\* How often a ray from p to the left, drawn just above the middle of the
\* line, crosses the loop: once for every loop tile it passes that is joined
\* to the loop tile above it.
Crossings(g, loop, p) ==
  Cardinality({x \in 1..(p[1] - 1) :
                 /\ <<x, p[2]>> \in loop
                 /\ <<x, p[2] - 1>> \in loop
                 /\ Joined10(g, <<x, p[2]>>, <<x, p[2] - 1>>)})

\* The tiles off the main loop that lie strictly inside it.
Enclosed(g) ==
  LET loop == MainLoop(g)
  IN Cardinality({p \in ((1..Len(g[1])) \X (1..Len(g))) \ loop :
                    Crossings(g, loop, p) % 2 = 1})

\* part2 is over, one way or the other.
Over10 == pc10 \in {"returned", "panic"}

\* C19: on every grid with a single closed loop through S, part2 returns the
\* number of tiles off the main loop that a ray leaves through an odd number
\* of crossings of the loop, that is, the tiles strictly inside it.
C19_Part2CountsEnclosed ==
  Over10 => pc10 = "returned" /\ ret10 = <<Enclosed(map10)>>

\* C19, where it fails: a pipe off the loop that leads into S is explored
\* with the loop, S is taken for '|' and the '7' of its line pops an empty stack.
C19_StrayPipeAtStart ==
  /\ pc10 = "panic"
  /\ map10 = << <<"|", "|", "|", "|">>,
                <<"S", "-", "7", "|">>,
                <<"|", "|", "|", "|">>,
                <<"L", "-", "J", "|">> >>
  /\ pipe_map[1][1] = "|"
  /\ pipe_map[2][1] = "|"
  /\ Cardinality(MainLoop(map10)) = 8

\* C19, where it holds: when only its two neighbours on the loop are joined
\* to S, part2 returns the number of enclosed tiles and never panics.
C19_TwoJoinedToStart ==
  Over10 /\ Cardinality(JoinedTo(map10, get_start_pos(map10))) = 2
    => pc10 = "returned" /\ ret10 = <<Enclosed(map10)>>

\* A grid of C19_TwoJoinedToStart with tiles inside, junk pipes around and a
\* closing corner that toggles.
C19_EnclosedCounted ==
  /\ pc10 = "returned"
  /\ Cardinality(JoinedTo(map10, get_start_pos(map10))) = 2
  /\ ret10 = <<2>>
  /\ map10[2] = <<"|", "|", "F", "J">>
  /\ map10[1][1] = "S"

\* ------------------------------------------------------------ day18: claims

\* The cells the digger passes, in order, from its start at (0, 0).
RECURSIVE Dig(_, _, _)
Dig(ins, at, passed) ==
  IF ins = << >> THEN passed
  ELSE IF Head(ins).steps = 0 THEN Dig(Tail(ins), at, passed)
  ELSE LET to == CASE Head(ins).direction = "Up" -> <<at[1], at[2] - 1>>
                   [] Head(ins).direction = "Down" -> <<at[1], at[2] + 1>>
                   [] Head(ins).direction = "Left" -> <<at[1] - 1, at[2]>>
                   [] Head(ins).direction = "Right" -> <<at[1] + 1, at[2]>>
       IN Dig(<<[Head(ins) EXCEPT !.steps = @ - 1]>> \o Tail(ins), to, Append(passed, to))

Trench(ins) == Dig(ins, <<0, 0>>, <<<<0, 0>>>>)

\* The instruction list is closed and crosses or touches itself nowhere: the
\* digger ends where it started and passes no other cell twice.
ClosedSimple(ins) ==
  LET t == Trench(ins)
  IN /\ Len(t) > 1
     /\ t[Len(t)] = t[1]
     /\ \A i, j \in 1..(Len(t) - 1) : i # j => t[i] # t[j]

\* The plain parity scan, cell by cell: a cell counts when it is on the
\* trench, or when a ray from it to the left, drawn just above the middle of
\* its row, crosses an odd number of the trench's unit steps between its row
\* and the row above.
DugOut(ins) ==
  LET t == Trench(ins)
      on == {t[i] : i \in DOMAIN t}
      xs == {p[1] : p \in on}
      ys == {p[2] : p \in on}
      up == {i \in 1..(Len(t) - 1) : t[i][1] = t[i + 1][1]}
      crossings(c) ==
        Cardinality({i \in up : /\ t[i][1] < c[1]
                                /\ {t[i][2], t[i + 1][2]} = {c[2] - 1, c[2]}})
  IN Cardinality({c \in xs \X ys : c \in on \/ crossings(c) % 2 = 1})

\* part1 is over, one way or the other.
Over18 == pc18 \in {"returned", "panic"}

\* C20: for every closed instruction list that does not cross itself, the
\* sum of fill_in_ranges over the rows, which part1 and part2 return, is the
\* number of cells on or inside the trench as the plain cell-by-cell parity
\* scan counts them.
C20_RangesEqualParityScan ==
  Over18 /\ ClosedSimple(instructions)
    => pc18 = "returned" /\ ret18 = <<DugOut(instructions)>>

\* A trench with a notch, counted: one row has a range entered and left on
\* the same side between two that change sides, another has cells filled in
\* between its ranges.
C20_Witness ==
  /\ pc18 = "returned"
  /\ instructions = << Instruction("Right", 1), Instruction("Down", 1),
                       Instruction("Right", 1), Instruction("Up", 1),
                       Instruction("Right", 1), Instruction("Down", 3),
                       Instruction("Left", 3), Instruction("Up", 3) >>
  /\ ClosedSimple(instructions)
  /\ ret18 = <<DugOut(instructions)>>
  /\ \E y \in bounds18.start_y..bounds18.end_y :
       LET row == get_ranges_for_y(lines18, y)[2]
           at == LinesAt(lines18, y)
       IN /\ Len(row) >= 2
          /\ \E i \in DOMAIN row :
               /\ row[i].start < row[i].end
               /\ get_shape_from_lines(at, row[i].start, y)
                    = get_shape_from_lines(at, row[i].end, y)
  /\ \E y \in bounds18.start_y..bounds18.end_y :
       LET row == get_ranges_for_y(lines18, y)[2]
       IN \E i \in 1..(Len(row) - 1) : row[i + 1].start - row[i].end > 1
  /\ ret18[1] > Len(Trench(instructions)) - 1

\* ------------------------------------------------------------ day16: more claims

\* A cursor is on the grid.
OnGrid(g, c) == c.x \in 0..(Len(g[1]) - 1) /\ c.y \in 0..(Len(g) - 1)

\* The cursor one cell further in direction d, wherever that is.
Ahead(c, d) ==
  CASE d = "Up" -> Laser(c.x, c.y - 1, d)
    [] d = "Down" -> Laser(c.x, c.y + 1, d)
    [] d = "Left" -> Laser(c.x - 1, c.y, d)
    [] d = "Right" -> Laser(c.x + 1, c.y, d)

\* The cursors at the end of the worklist that the step put there.
Pushed == {lasers'[i] : i \in Len(lasers)..Len(lasers')}

\* The loop takes a cursor from the worklist.
Taking == pc = "loop" /\ lasers # << >>

\* C23: from an in-bounds start cursor every cursor on the worklist is on
\* the grid; expanding a cursor pushes exactly the cells one step ahead in
\* its new directions that are on the grid, a step off the grid pushing
\* nothing (no wrapped, no clamped cursor); the indexing never fails.
C23_InBounds ==
  [][/\ pc' # "panic"
     /\ pc' = "loop" => \A i \in DOMAIN lasers' : OnGrid(grid', lasers'[i])
     /\ (Taking /\ Head(lasers) \notin seen)
          => Pushed = {c \in {Ahead(Head(lasers), d) :
                                d \in C3_Table(TileAt(grid, Head(lasers)),
                                               Head(lasers).direction)} :
                         OnGrid(grid, c)}]_vars

\* A splitter on an edge was expanded: one of its two beams left the grid
\* and was dropped, the other went on.
C23_Witness ==
  /\ pc = "loop"
  /\ \E c \in seen :
       /\ TileAt(grid, c) \in {"HSplitter", "VSplitter"}
       /\ \E d, e \in C3_Table(TileAt(grid, c), c.direction) :
            /\ ~OnGrid(grid, Ahead(c, d))
            /\ OnGrid(grid, Ahead(c, e))
            /\ Ahead(c, e) \in seen

\* C24: a cursor taken from the worklist that is already in the seen set
\* marks its cell and pushes nothing; one that is not is put into the seen
\* set, whatever other directions its cell was entered in, so that each
\* (position, direction) is expanded at most once in a run.
C24_ExpandedOnce ==
  [][Taking =>
       /\ result'[Head(lasers).y + 1][Head(lasers).x + 1]
       /\ IF Head(lasers) \in seen
            THEN lasers' = Tail(lasers) /\ seen' = seen
            ELSE seen' = seen \cup {Head(lasers)} /\ seen' # seen]_vars

\* The beam has come round: the cursor to take is in the seen set, and some
\* cell was expanded in two directions.
C24_Witness ==
  /\ Taking
  /\ Head(lasers) \in seen
  /\ \E c, d \in seen : c.x = d.x /\ c.y = d.y /\ c.direction # d.direction

\* C25: within a run the seen set and the energized cells only grow, the
\* grid is never changed once parsed, every run starts from an empty seen
\* set and no energized cell, and the value of every run of part1 and part2
\* is the value of a run of its own on the grid.
C25_RunsIndependent ==
  [][/\ (pc = "loop" /\ pc' = "loop")
          => /\ seen \subseteq seen'
             /\ Energized(result) \subseteq Energized(result')
     /\ grid # << >> => grid' = grid
     /\ (pc # "loop" /\ pc' = "loop")
          => /\ seen' = {}
             /\ Energized(result') = {}
             /\ lasers' = << start_laser' >>
     /\ pc' = "done"
          => \A k \in DOMAIN rets' :
               rets'[k] = CountTrue(fire_laser(grid', fired'[k]).result)]_vars

\* part2 is in a later run of its loop, on a grid where the run before left
\* cursors in its seen set.
C25_Witness ==
  /\ pc = "loop"
  /\ caller = "part2"
  /\ Len(rets) >= 2
  /\ rets[Len(rets)] >= 2
  /\ seen # {}
  /\ Cardinality(Energized(result)) >= 2

\* C27: every value fire_laser returns lies between 1 and width * height,
\* and when both parts have returned part2's value is at least part1's,
\* part1's start cursor being among those part2 fired.
C27_Part2AtLeastPart1 ==
  /\ \A k \in DOMAIN rets : 1 <= rets[k] /\ rets[k] <= Len(grid) * Len(grid[1])
  /\ pc = "done" =>
       /\ answer2 >= answer1
       /\ answer1 >= 1
       /\ \E k \in DOMAIN Part2Fired : Part2Fired[k] = Part1Start

\* Both parts have returned on a grid of several cells where part1's start
\* gave the largest value, and it is less than the number of cells.
C27_Witness ==
  /\ pc = "done"
  /\ answer2 = answer1
  /\ answer1 >= 2
  /\ answer1 < Len(grid) * Len(grid[1])
  /\ \A k \in 3..Len(rets) : rets[k] < answer1

\* ------------------------------------------------------------ day12: claims

\* The rows with each Unknown replaced by Damaged or Operational.
Replacements(springs) ==
  {r \in [DOMAIN springs -> {"Damaged", "Operational"}] :
     \A i \in DOMAIN springs : springs[i] # "Unknown" => r[i] = springs[i]}

\* The lengths of the maximal runs of Damaged springs, left to right.
RECURSIVE RunLengths(_, _)
RunLengths(springs, run) ==
  IF springs = << >> THEN (IF run > 0 THEN <<run>> ELSE << >>)
  ELSE IF Head(springs) = "Damaged" THEN RunLengths(Tail(springs), run + 1)
  ELSE (IF run > 0 THEN <<run>> ELSE << >>) \o RunLengths(Tail(springs), 0)

\* The number of replacements whose runs are the groups.
Variants(line) ==
  Cardinality({r \in Replacements(line.springs) : RunLengths(r, 0) = line.counts})

\* The recursion of get_counts_recursive without its HashMap.
RECURSIVE Unmemoized(_, _)
Unmemoized(line, prev) ==
  LET springs == line.springs
      target_counts == line.counts
  IN IF springs = << >>
     THEN (IF target_counts = << >> \/ target_counts = <<0>> THEN 1 ELSE 0)
     ELSE IF target_counts = << >> /\ \E i \in DOMAIN springs : springs[i] = "Damaged"
     THEN 0
     ELSE CASE springs[1] = "Unknown" ->
                 Unmemoized(Line12(<<"Damaged">> \o Tail(springs), target_counts), prev)
                   + Unmemoized(Line12(<<"Operational">> \o Tail(springs), target_counts), prev)
            [] springs[1] = "Damaged" ->
                 IF target_counts[1] = 0 THEN 0
                 ELSE Unmemoized(Line12(Tail(springs),
                                        <<target_counts[1] - 1>> \o Tail(target_counts)),
                                 "Damaged")
            [] springs[1] = "Operational" /\ prev = "Operational" ->
                 Unmemoized(Line12(Tail(springs), target_counts), "Operational")
            [] springs[1] = "Operational" /\ prev = "Damaged" ->
                 IF target_counts[1] = 0
                 THEN Unmemoized(Line12(Tail(springs), Tail(target_counts)), "Operational")
                 ELSE 0

\* Every group of the line holds at least one spring.
GroupsPositive(line) == \A i \in DOMAIN line.counts : line.counts[i] >= 1

\* The call is over, one way or the other.
Over12 == pc12 \in {"returned", "panic"}

\* C21 as claimed: for every row and every group list count_line_variants
\* returns the number of replacements whose runs of Damaged springs are the
\* groups, and what it returns is what the recursion gives without the memo.
C21_CountsVariantsAsClaimed ==
  Over12 => /\ pc12 = "returned"
            /\ ret12 = <<Variants(line12)>>
            /\ ret12 = <<Unmemoized(line12, "Operational")>>

\* C21 where every group holds at least one spring: count_line_variants
\* returns the number of variants; and for every group list, a 0 included,
\* it returns what the recursion gives without the memo.
C21_CountsVariants ==
  Over12 => /\ pc12 = "returned"
            /\ GroupsPositive(line12) => ret12 = <<Variants(line12)>>
            /\ ret12 = <<Unmemoized(line12, "Operational")>>

\* A row with Unknown springs and two groups has several variants, and the
\* memo answered on the way.
C21_SeveralVariants ==
  /\ pc12 = "returned"
  /\ GroupsPositive(line12)
  /\ Len(line12.counts) = 2
  /\ ret12[1] >= 3
  /\ hits12 >= 1
  /\ \E i \in DOMAIN line12.springs : line12.springs[i] = "Damaged"

\* The row "." with the group list 0: no replacement has a run of 0 Damaged
\* springs, and count_line_variants returns 1.
C21_GroupOfNone ==
  /\ pc12 = "returned"
  /\ line12 = Line12(<<"Operational">>, <<0>>)
  /\ Variants(line12) = 0
  /\ ret12 = <<1>>

\* ------------------------------------------------------------ day8: claims

\* The number a usize of at most three bytes stands for.
RECURSIVE BigToInt(_)
BigToInt(a) == IF a = << >> THEN 0 ELSE a[1] + 256 * BigToInt(Tail(a))

Small8(a) == Len(a) <= 3

\* The greatest common divisor by Euclid's remainders.
RECURSIVE Euclid(_, _)
Euclid(a, b) == IF b = << >> THEN a ELSE Euclid(b, BigDivMod(a, b).r)

\* g is the greatest of the common divisors of two small numbers, 0 for 0
\* and 0.
IsGreatestCommonDivisor(g, m, n) ==
  IF m = 0 /\ n = 0 THEN g = 0
  ELSE /\ g >= 1 /\ m % g = 0 /\ n % g = 0
       /\ \A d \in (g + 1)..(m + n) : ~(m % d = 0 /\ n % d = 0)

\* The least common multiple of the elements of a non-empty slice, by
\* dividing before multiplying.
RECURSIVE LcmOf(_)
LcmOf(slice) ==
  IF Len(slice) = 1 THEN slice[1]
  ELSE LET rest == LcmOf(Tail(slice))
       IN BigMul(BigDivMod(slice[1], Euclid(slice[1], rest)).q, rest)

\* m is the least of the common multiples of small positive numbers.
IsLeastCommonMultiple(m, slice) ==
  /\ m >= 1
  /\ \A i \in DOMAIN slice : m % slice[i] = 0
  /\ \A k \in 1..(m - 1) : \E i \in DOMAIN slice : k % slice[i] # 0

\* The number of bits of a number.
BitLen(a) ==
  IF a = << >> THEN 0
  ELSE 8 * (Len(a) - 1) + (CHOOSE k \in 1..8 : 2 ^ (k - 1) <= a[Len(a)] /\ a[Len(a)] < 2 ^ k)

\* Every product a * b that lcm_all forms on the slice fits a usize.
RECURSIVE ProductsFit(_)
ProductsFit(slice) ==
  Len(slice) <= 1
    \/ (ProductsFit(Tail(slice)) /\ Fits(BigMul(slice[1], LcmOf(Tail(slice)))))

\* The call is over: it returned, panicked, or is known never to return.
Over8 == pc8 \in {"returned", "panic", "never"}

\* The steps part2 collected are those of the starts, each at least 1.
StepsOfStarts ==
  /\ Len(list8) = Cardinality({k \in DOMAIN map8 : EndsWith(k, "A")})
  /\ \A i \in DOMAIN list8 : list8[i] # << >>

\* C22 as claimed: gcd returns the greatest common divisor of any a and b,
\* with gcd(0, x) = gcd(x, 0) = x; lcm_all returns the least common multiple
\* of any non-empty slice of positive numbers whose least common multiple
\* is a usize; and part2 returns that of the steps of its starts.
C22_GcdLcmAsClaimed ==
  Over8 =>
    /\ call8 = "gcd" =>
         /\ pc8 = "returned"
         /\ ret8 = <<Euclid(a8, b8)>>
         /\ a8 = << >> => ret8 = <<b8>>
         /\ b8 = << >> => ret8 = <<a8>>
    /\ (call8 = "lcm_all" /\ Fits(LcmOf(list8))) =>
         /\ pc8 = "returned"
         /\ ret8 = <<LcmOf(list8)>>
    /\ (call8 = "part2" /\ pc8 = "returned") =>
         /\ StepsOfStarts
         /\ ret8 = <<LcmOf(list8)>>

\* The gcd half of C22: gcd returns the greatest common divisor, x for
\* (0, x) and (x, 0), and the outermost call is over after at most one call
\* per bit of its arguments and one more.
C22_GcdIsGreatest ==
  /\ call8 = "gcd" => calls8 <= BitLen(a8) + BitLen(b8) + 1
  /\ (Over8 /\ call8 = "gcd") =>
       /\ pc8 = "returned"
       /\ ret8 = <<Euclid(a8, b8)>>
       /\ a8 = << >> => ret8 = <<b8>>
       /\ b8 = << >> => ret8 = <<a8>>
       /\ (Small8(a8) /\ Small8(b8)) =>
            IsGreatestCommonDivisor(BigToInt(ret8[1]), BigToInt(a8), BigToInt(b8))

\* gcd terminates: a call that calls gcd again hands on arguments with
\* fewer bits in all, and the value goes up one waiting call at a time.
C22_GcdBitsDecrease ==
  [][/\ (pc8 = "gcd" /\ pc8' = "gcd")
          => BitLen(x8') + BitLen(y8') < BitLen(x8) + BitLen(y8)
     /\ (pc8 = "unwind" /\ pc8' = "unwind") => Len(shifts8') < Len(shifts8)]_vars

\* The lcm half of C22 where no product overflows: lcm_all and part2
\* return the least common multiple.
C22_LcmWhereProductsFit ==
  (Over8 /\ call8 \in {"lcm_all", "part2"} /\ pc8 # "never"
     /\ list8 # << >> /\ (call8 = "part2" => pc8 = "returned") /\ ProductsFit(list8)) =>
    /\ pc8 = "returned"
    /\ ret8 = <<LcmOf(list8)>>
    /\ (\A i \in DOMAIN list8 : Small8(list8[i]) /\ Small8(ret8[1])) =>
         IsLeastCommonMultiple(BigToInt(ret8[1]), [i \in DOMAIN list8 |-> BigToInt(list8[i])])

\* lcm_all of [4294967296, 4294967296] in a release build: the least common
\* multiple is 4294967296, the product wraps to 0, and 0 is returned.
C22_ProductWraps ==
  /\ call8 = "lcm_all" /\ build8 = "release" /\ pc8 = "returned"
  /\ list8 = <<TwoTo32, TwoTo32>>
  /\ LcmOf(list8) = TwoTo32
  /\ ret8 = <<BigFrom(0)>>

\* The same slice in a debug build: the multiplication panics.
C22_ProductPanics ==
  /\ call8 = "lcm_all" /\ build8 = "debug" /\ pc8 = "panic"
  /\ list8 = <<TwoTo32, TwoTo32>>

\* tests::test_part2: the starts take 2 and 3 steps and part2 returns 6.
C22_TestPart2 ==
  /\ call8 = "part2" /\ pc8 = "returned" /\ map8 = TEST_PART2_MAP
  /\ {list8[i] : i \in DOMAIN list8} = {BigFrom(2), BigFrom(3)}
  /\ ret8 = <<BigFrom(6)>>

\* gcd of an even and a larger even number: arm 4 shifted the value back.
C22_GcdShifted ==
  /\ call8 = "gcd" /\ pc8 = "returned"
  /\ a8 = BigFrom(12) /\ b8 = <<0, 0, 0, 128, 1>>
  /\ ret8 = <<BigFrom(12)>>
  /\ calls8 >= 30

\* ------------------------------------------------------------ day19: claims on ranges

\* Both sides of the comparison are there.
Compared19 == contained19 # << >> /\ matched19 # << >>

\* C26 as claimed: the range of a condition contains a part exactly when
\* the condition matches it, and some range of part_ranges contains a part
\* with fields in 1..=4000 exactly when accept_part accepts it.
C26_RangesAgreeWithEvaluation ==
  /\ pc19r # "panic"
  /\ Compared19 => contained19 = matched19

\* What holds of the ranges: a part that the condition matches, or that
\* accept_part accepts, is in a range; and the range of a Greater condition
\* contains a part with fields in 1..=4000 exactly when it matches.
C26_RangesCoverEvaluation ==
  /\ pc19r # "panic"
  /\ Compared19 =>
       /\ matched19[1] => contained19[1]
       /\ (call19 = "condition" /\ condition19.operator = "Greater")
            => contained19 = matched19

\* The condition x < 2 and a part with x = 2: the range 0..=2 contains it,
\* the condition does not match.
C26_LessContainsItsValue ==
  /\ call19 = "condition" /\ Compared19
  /\ condition19 = Condition("X", "Less", 2)
  /\ part19.x = 2
  /\ to_part_range(condition19).x = [start |-> 0, size |-> 2]
  /\ contained19 = <<TRUE>> /\ matched19 = <<FALSE>>

\* The workflow in{x>1:R,A}: the edge to Accept carries no condition, the one
\* range returned is the default, and it contains a part that is rejected.
C26_ElseEdgeUnconditioned ==
  /\ call19 = "workflows" /\ Compared19
  /\ workflows19[1].rules = <<Rule19(<<Condition("X", "Greater", 1)>>, StageReject),
                              Rule19(<< >>, StageAccept)>>
  /\ found19 = <<PartRangeDefault>>
  /\ part19.x = 3
  /\ contained19 = <<TRUE>> /\ matched19 = <<FALSE>>

\* tests::test_part1 on TEST_INPUT: the first, third and fifth part are
\* accepted, and each is in a range.
C26_TestParts ==
  (call19 = "workflows" /\ workflows19 = TEST_WORKFLOWS19 /\ matched19 # << >>) =>
    /\ matched19[1] = (part19.x \in {787, 2036, 2127})
    /\ contained19 # << >> => (matched19[1] => contained19[1])
====
